---- MODULE Spec2Model ----
(***************************************************************************)
(* cloudless-cart: signing engine (src/src/jsonSignature.ts), token engine *)
(* (src/src/tokenCrypto.ts) and their composition                          *)
(* (src/src/cloudlessCrypto.ts) over one shared key store.                 *)
(*                                                                         *)
(* The cryptographic primitives of jose are modelled symbolically: a key   *)
(* half is named by the material it belongs to, a signature records the    *)
(* private material, the algorithm and the exact signing input, a JWE      *)
(* records the public material it was encrypted to.  A signature verifies  *)
(* only under the matching public half over the identical input; a JWE     *)
(* decrypts only under the matching private half.                          *)
(***************************************************************************)
EXTENDS Integers, Sequences, FiniteSets, TLC

VARIABLES
  keys,     \* the key store shared by the signer and the encryptor
  cart,     \* the object the caller wants protected
  signed,   \* the SignedObject the caller holds
  token,    \* the encrypted token the caller holds
  orig,     \* how what the caller holds came about, and what was done to it
  res,      \* what the last call returned or threw
  runtime,  \* the module state of utils/compression.ts and the codecs there
  peer,     \* the key store of a second, independently constructed object
  maps,     \* the Map objects that exist besides, by reference
  engines,  \* the objects constructed over those Maps
  wasm,     \* the brotli WASM module of the page and who asked for it
  inflight  \* the calls on the key store that are awaiting a promise

vars == <<keys, cart, signed, token, orig, res, runtime, peer, maps, engines,
         wasm, inflight>>

\* what the operations on one object's keys and envelopes leave alone
others == <<token, runtime, peer, maps, engines, wasm, inflight>>

-----------------------------------------------------------------------------
(* Bounds *)

\* number of key identifiers uuidv4 can hand out in one run
MaxKeys == 2

\* number of top-level fields of a payload given to sign / encryptThenSign
MaxFields == 2

\* most engines constructed in a run
MaxEngines == 3

\* most Map objects the caller constructs in a run
MaxMaps == 1

\* most calls on the key store started in a run
MaxCalls == 3

-----------------------------------------------------------------------------
(* JSON values.  An object is the sequence of its fields in insertion      *)
(* order; a value is tagged with its JSON type.                            *)

Str(s) == [t |-> "str", v |-> s]

Obj(fields) == [t |-> "obj", v |-> fields]

Fld(k, v) == [k |-> k, v |-> v]

\* the value of a property that is not there
UndefinedValue == [t |-> "undefined", v |-> ""]

HasField(o, k) == \E i \in DOMAIN o : o[i].k = k

Get(o, k) ==
  IF HasField(o, k) THEN o[CHOOSE i \in DOMAIN o : o[i].k = k].v
  ELSE UndefinedValue

\* o[k] = v : an existing property keeps its place, a new one is appended
Put(o, k, v) ==
  IF HasField(o, k)
  THEN [i \in DOMAIN o |-> IF o[i].k = k THEN Fld(k, v) ELSE o[i]]
  ELSE Append(o, Fld(k, v))

\* delete o[k]
Delete(o, k) ==
  LET keep(f) == f.k # k IN SelectSeq(o, keep)

\* JavaScript string order of the property names the model uses
KeyOrder ==
  << "_compressed", "_compression", "_originalSize", "a", "aud", "encrypted",
     "error", "exp", "iat", "iss", "jti", "n", "nbf", "payload", "payloadHash",
     "protected", "signature", "sub",
     "timestamp", "version", "x", "y", "z" >>

\* the fields of o in the order of their names
SortFields(o) ==
  LET has(k) == HasField(o, k)
      names == SelectSeq(KeyOrder, has)
  IN [i \in 1..Len(names) |-> Fld(names[i], Get(o, names[i]))]

RECURSIVE Canon(_)
\* the object fast-json-stable-stringify writes: keys sorted at every depth
Canon(o) ==
  LET s == SortFields(o)
  IN [i \in 1..Len(s) |->
        Fld(s[i].k, IF s[i].v.t = "obj" THEN Obj(Canon(s[i].v.v)) ELSE s[i].v)]

\* a serializer that writes the properties in insertion order
stringifyInsertionOrder(o) == [t |-> "text", v |-> o]

\* stringify(obj) of fast-json-stable-stringify: the text of the sorted object
stringify(o) == [t |-> "text", v |-> Canon(o)]

\* JSON.stringify(obj): the text of the object in insertion order
JsonStringify(o) == [t |-> "text", v |-> o]

\* JSON.parse(text)
JsonParse(s) == s.v

\* deep equality of two objects, whatever the order of their properties
SameObject(a, b) == Canon(a) = Canon(b)

\* toMatchObject: every field of p is in o with the same value
Contains(o, p) ==
  \A i \in DOMAIN p :
     /\ HasField(o, p[i].k)
     /\ LET w == Get(o, p[i].k)
        IN IF p[i].v.t = "obj"
           THEN w.t = "obj" /\ SameObject(w.v, p[i].v.v)
           ELSE w = p[i].v

-----------------------------------------------------------------------------
(* The payloads callers pass in: at most MaxFields of the names below, in  *)
(* an insertion order that is not the sorted one, with nesting two deep.   *)

YX == << Fld("y", Str("1")), Fld("x", Str("1")) >>

NestedObjs == { <<>>, YX, << Fld("x", Obj(YX)) >> }

TopNames == <<"sub", "n", "a">>

ValuesOf(k) ==
  IF k = "n" THEN {Obj(o) : o \in NestedObjs} ELSE {Str("1")}

AllValues == UNION {ValuesOf(TopNames[i]) : i \in DOMAIN TopNames}

PayloadsOver(names) ==
  { [i \in 1..Len(names) |-> Fld(names[i], vs[i])] :
      vs \in { w \in [1..Len(names) -> AllValues] :
                \A i \in 1..Len(names) : w[i] \in ValuesOf(names[i]) } }

Payloads ==
  UNION { PayloadsOver(LET in(k) == k \in N IN SelectSeq(TopNames, in)) :
            N \in { M \in SUBSET {TopNames[i] : i \in DOMAIN TopNames} :
                      Cardinality(M) <= MaxFields } }

-----------------------------------------------------------------------------
(* Key store *)

KeyNames == << "k1", "k2", "k3", "k4", "k5" >>

\* the identifiers uuidv4 returns
KeyIds == {KeyNames[i] : i \in 1..MaxKeys}

\* a key argument that was not passed
UndefinedKey == "<undefined>"

\* !key of JavaScript: undefined and the empty string are falsy
Falsy(key) == key = UndefinedKey \/ key = ""

\* a KeyLike: one half of the key material m
PublicHalf(m) == [half |-> "public", m |-> m]

PrivateHalf(m) == [half |-> "private", m |-> m]

\* a property of a KeyPair that is not set
NoKey == [half |-> "none", m |-> ""]

\* what KeyStore.get returns for an identifier that was never set
NoRecord ==
  [present |-> FALSE, publicKey |-> NoKey, privateKey |-> NoKey, alg |-> ""]

KeyPair(pub, priv, alg) ==
  [present |-> TRUE, publicKey |-> pub, privateKey |-> priv, alg |-> alg]

KeysGet(store, key) == IF key \in DOMAIN store THEN store[key] ELSE NoRecord

KeysSet(store, key, value) == [store EXCEPT ![key] = value]

SigningAlgs == {"PS256"}

EncryptionAlgs == {"RSA-OAEP-256"}

\* uuidv4(): an identifier no record of the store is under yet
uuidv4(store) ==
  KeyNames[CHOOSE i \in 1..MaxKeys :
             /\ ~store[KeyNames[i]].present
             /\ \A j \in 1..(i - 1) : store[KeyNames[j]].present]

StoreFull(store) == \A k \in KeyIds : store[k].present

-----------------------------------------------------------------------------
(* Signing engine: src/src/jsonSignature.ts *)

\* the protected header sign() sets: { alg, kid, b64: false, crit: ['b64'] }
ProtectedHeader(alg, kid) == [wellFormed |-> TRUE, alg |-> alg, kid |-> kid]

\* a protected string that does not decode to a header object
MalformedHeader == [wellFormed |-> FALSE, alg |-> "", kid |-> ""]

\* a signature string no key produced ('invalid-signature')
InvalidSignature ==
  [m |-> "", alg |-> "", protected |-> MalformedHeader, payload |-> stringify(<<>>)]

\* jose.FlattenedSign(input).setProtectedHeader(header).sign(privateKey)
FlattenedSign(input, header, privateKey) ==
  [m |-> privateKey.m, alg |-> header.alg, protected |-> header,
   payload |-> input]

\* jose.flattenedVerify(jws, publicKey, options): "" when the check passes,
\* the reason otherwise.  pinned is options.algorithms[0], "" without options.
FlattenedVerify(jws, publicKey, pinned) ==
  IF ~jws.protected.wellFormed THEN "Protected Header is invalid"
  ELSE IF pinned # "" /\ jws.protected.alg # pinned
  THEN "alg Header Parameter value not allowed"
  ELSE IF jws.protected.alg \notin SigningAlgs THEN "alg is not supported"
  ELSE IF jws.signature =
            FlattenedSign(jws.payload, jws.protected, PrivateHalf(publicKey.m))
  THEN ""
  ELSE "signature verification failed"

SignedObject(signature, protected, payload) ==
  [signature |-> signature, protected |-> protected, payload |-> payload]

\* the object a caller holds before anything was signed
NoSigned == SignedObject(InvalidSignature, MalformedHeader, <<>>)

Returned(v) == [t |-> "ok", v |-> v, err |-> ""]

Thrown(v, msg) == [t |-> "throw", v |-> v, err |-> msg]

\* sign handing whatever key object is stored as privateKey to the signer
signWithAnyHalf(store, key, obj) ==
  LET value == KeysGet(store, key)
      input == stringify(obj)
      header == ProtectedHeader(value.alg, key)
  IN IF value.privateKey = NoKey THEN Thrown(NoSigned, "Key not found")
     ELSE IF value.alg \notin SigningAlgs
     THEN Thrown(NoSigned, "alg is not supported")
     ELSE Returned(SignedObject(FlattenedSign(input, header, value.privateKey),
                                header, JsonParse(input)))

\* JsonSignature.sign(key, obj)
sign(store, key, obj) ==
  LET value == KeysGet(store, key)
      input == stringify(obj)
      header == ProtectedHeader(value.alg, key)
  IN IF value.privateKey = NoKey THEN Thrown(NoSigned, "Key not found")
     ELSE IF value.alg \notin SigningAlgs
     THEN Thrown(NoSigned, "alg is not supported")
     ELSE IF value.privateKey.half # "private"
     THEN Thrown(NoSigned, "key must be private")
     ELSE Returned(SignedObject(FlattenedSign(input, header, value.privateKey),
                                header, JsonParse(input)))

\* an export that leaves the private exponent out
exportJWKWithoutPrivateExponent(key) ==
  [kty |-> "RSA", n |-> key.m, d |-> FALSE]

\* jose.exportJWK(key) of an RSA key: the modulus n, and the private
\* exponent d when the key is a private one
exportJWK(key) == [kty |-> "RSA", n |-> key.m, d |-> key.half = "private"]

\* jose.importJWK(jwk, alg) in Node.js: a private key object when the JWK
\* has d, a public one otherwise; alg is not kept in the key object
importJWK(jwk, alg) == IF jwk.d THEN PrivateHalf(jwk.n) ELSE PublicHalf(jwk.n)

\* JsonSignature.getPublicKey(key): the exported public half
getPublicKey(store, key) ==
  LET value == KeysGet(store, key)
  IN IF value.publicKey = NoKey THEN Thrown(NoKey, "Key not found")
     ELSE Returned(exportJWK(value.publicKey))

\* exportKeyPair(key) of either engine
exportKeyPair(store, key) ==
  LET value == KeysGet(store, key)
  IN IF value.publicKey = NoKey \/ value.privateKey = NoKey
     THEN Thrown(NoRecord, "Not a valid key pair")
     ELSE Returned([kid |-> key, publicKey |-> exportJWK(value.publicKey),
                    privateKey |-> exportJWK(value.privateKey),
                    alg |-> value.alg])

\* { error: message }
ErrorObject(msg) == << Fld("error", Str(msg)) >>

\* _verify without the fallback to the kid of the protected header
verifyWithoutHeaderKid(store, sgn, key) ==
  IF ~sgn.protected.wellFormed
  THEN Returned(ErrorObject("Protected Header is invalid"))
  ELSE
    LET value == KeysGet(store, key)
        jws == [signature |-> sgn.signature, protected |-> sgn.protected,
                payload |-> stringify(sgn.payload)]
        why == FlattenedVerify(jws, value.publicKey, value.alg)
    IN IF Falsy(key) THEN Returned(ErrorObject("kid not found"))
       ELSE IF value.publicKey = NoKey
       THEN Returned(ErrorObject("Key not found"))
       ELSE IF why = "" THEN Returned(JsonParse(jws.payload))
       ELSE Returned(ErrorObject(why))

\* _verify returning the payload whatever flattenedVerify says
verifyIgnoringFailure(store, sgn, key) ==
  IF ~sgn.protected.wellFormed
  THEN Returned(ErrorObject("Protected Header is invalid"))
  ELSE IF Falsy(key) /\ sgn.protected.kid = ""
  THEN Returned(ErrorObject("no key found"))
  ELSE
    LET kid == IF Falsy(key) THEN sgn.protected.kid ELSE key
        value == KeysGet(store, kid)
    IN IF kid = "" THEN Returned(ErrorObject("kid not found"))
       ELSE IF value.publicKey = NoKey
       THEN Returned(ErrorObject("Key not found"))
       ELSE Returned(JsonParse(stringify(sgn.payload)))

\* _verify reading value.publicKey without testing the record: on an
\* identifier the store has no record under, the read throws a TypeError
\* outside the try blocks
verifyWithoutKeyCheck(store, sgn, key) ==
  IF ~sgn.protected.wellFormed
  THEN Returned(ErrorObject("Protected Header is invalid"))
  ELSE IF Falsy(key) /\ sgn.protected.kid = ""
  THEN Returned(ErrorObject("no key found"))
  ELSE
    LET kid == IF Falsy(key) THEN sgn.protected.kid ELSE key
        value == KeysGet(store, kid)
        jws == [signature |-> sgn.signature, protected |-> sgn.protected,
                payload |-> stringify(sgn.payload)]
        why == FlattenedVerify(jws, value.publicKey, value.alg)
    IN IF kid = "" THEN Returned(ErrorObject("kid not found"))
       ELSE IF ~value.present
       THEN Thrown(<<>>, "Cannot read properties of undefined")
       ELSE IF why = "" THEN Returned(JsonParse(jws.payload))
       ELSE Returned(ErrorObject(why))

\* JsonSignature.verify(signed, key) and the _verify it awaits: every
\* failure is caught and comes back as { error }
verify(store, sgn, key) ==
  IF ~sgn.protected.wellFormed
  THEN Returned(ErrorObject("Protected Header is invalid"))
  ELSE IF Falsy(key) /\ sgn.protected.kid = ""
  THEN Returned(ErrorObject("no key found"))
  ELSE
    LET kid == IF Falsy(key) THEN sgn.protected.kid ELSE key
        value == KeysGet(store, kid)
    IN IF kid = "" THEN Returned(ErrorObject("kid not found"))
       ELSE IF value.publicKey = NoKey
       THEN Returned(ErrorObject("Key not found"))
       ELSE
         LET jws == [signature |-> sgn.signature, protected |-> sgn.protected,
                     payload |-> stringify(sgn.payload)]
             why == FlattenedVerify(jws, value.publicKey, value.alg)
         IN IF why = "" THEN Returned(JsonParse(jws.payload))
            ELSE Returned(ErrorObject(why))

IsError(o) == HasField(o, "error")

-----------------------------------------------------------------------------
(* Compression: src/src/utils/compression.ts.  The codecs are outside the   *)
(* repository: compressed bytes record the codec that produced them and    *)
(* the text they came from, and their length is the codec's framing plus   *)
(* half the input, so that short texts grow and long ones shrink.          *)

\* isNode / isBrowser, the wasmEnabled flag, and whether the brotli codec
\* (the brotli module, brotli-wasm) and the gzip codec (zlib, the
\* CompressionStream API) of the runtime work or throw
Runtime(kind, wasmEnabled, brotli, gzip) ==
  [kind |-> kind, wasmEnabled |-> wasmEnabled, brotli |-> brotli, gzip |-> gzip]

\* Node.js with both codecs at hand
NodeRuntime == Runtime("node", FALSE, "ok", "ok")

CodecStates == {"ok", "fails"}

\* a module that loads with the opt-in already given
RuntimesWithWasmOn ==
  {Runtime(k, TRUE, b, g) : k \in {"node", "browser"}, b \in CodecStates,
                            g \in CodecStates}
    \cup {Runtime("unknown", TRUE, "fails", "fails")}

\* the runtimes a process can start in: wasmEnabled is false at load
Runtimes ==
  {Runtime(k, FALSE, b, g) : k \in {"node", "browser"}, b \in CodecStates,
                             g \in CodecStates}
    \cup {Runtime("unknown", FALSE, "fails", "fails")}

\* let browserBrotliWasm: any = null, with what the run has seen of it:
\* the calls awaiting import('brotli-wasm'), whether enableBrotliWasm was
\* ever called, and every import with the flag and the calls before it
NoWasm ==
  [browserBrotliWasm |-> FALSE, loading |-> {}, called |-> FALSE,
   imports |-> {}]

\* no call on the key store is awaiting anything
NoCalls == << >>

RECURSIVE JsonLen(_, _)
\* length of the JSON text of fields i.. of o; the base64url text of an
\* RSA signature is several times as long as the other strings
JsonLen(o, i) ==
  IF i > Len(o) THEN 1
  ELSE 1 + (IF o[i].v.t = "obj" THEN JsonLen(o[i].v.v, 1)
            ELSE IF o[i].v.t = "signature" THEN 4
            ELSE 1)
         + JsonLen(o, i + 1)

\* Buffer.from(text, 'utf8')
Buffer(text) == [codec |-> "raw", text |-> text]

ByteLength(bytes) ==
  LET n == JsonLen(bytes.text.v, 1)
  IN CASE bytes.codec = "raw" -> n
       [] bytes.codec = "brotli" -> 1 + (n + 1) \div 2
       [] bytes.codec = "gzip" -> 4 + (n + 1) \div 2

\* a codec that, where it fails, hands back bytes of nothing
EncodeEmptyOnFailure(codec, data) ==
  IF runtime[codec] = "ok" THEN [codec |-> codec, text |-> data.text]
  ELSE [codec |-> codec, text |-> JsonStringify(<<>>)]

\* what a codec of the runtime makes of data; a codec that throws is caught
\* by compress and the data comes back as it is
Encode(codec, data) ==
  IF runtime[codec] = "ok" THEN [codec |-> codec, text |-> data.text] ELSE data

\* compress(data, { method })
compress(data, method) ==
  IF method = "none" THEN data
  ELSE IF runtime.kind = "node" THEN Encode(method, data)
  ELSE IF runtime.kind = "browser"
  THEN IF method = "brotli" /\ runtime.wasmEnabled /\ runtime.brotli = "ok"
       THEN Encode("brotli", data)
       ELSE Encode("gzip", data)
  ELSE data

\* a codec of the runtime can undo data
Decodes(codec, data) == runtime[codec] = "ok" /\ data.codec = codec

\* data[0] === 0x1f && data[1] === 0x8b: gzip output starts with the magic
\* bytes, and so may bytes that are no gzip stream
HasGzipMagic(data) == data.codec \in {"gzip", "torn-gzip"}

\* a detection that does not look for the magic bytes
DetectedMethodWithoutMagic(data, method) ==
  IF method # "undefined" THEN method ELSE "brotli"

\* the method decompress goes by: the one passed, or the one detected when
\* none was passed ("undefined")
DetectedMethod(data, method) ==
  IF method # "undefined" THEN method
  ELSE IF HasGzipMagic(data) THEN "gzip"
  ELSE "brotli"

\* decompress(data, method): a codec that rejects its input is caught and
\* the input comes back as it is
decompress(data, method) ==
  LET m == DetectedMethod(data, method)
  IN IF m = "none" THEN data
     ELSE IF runtime.kind = "node"
     THEN IF Decodes(m, data) THEN Buffer(data.text) ELSE data
     ELSE IF runtime.kind = "browser"
     THEN IF m = "brotli" /\ runtime.wasmEnabled /\ Decodes("brotli", data)
          THEN Buffer(data.text)
          ELSE IF Decodes("gzip", data) THEN Buffer(data.text)
          ELSE data
     ELSE data

\* enableBrotliWasm()
enableBrotliWasm(rt) ==
  IF rt.kind = "browser" THEN [rt EXCEPT !.wasmEnabled = TRUE] ELSE rt

\* disableBrotliWasm()
disableBrotliWasm(rt) == [rt EXCEPT !.wasmEnabled = FALSE]

-----------------------------------------------------------------------------
(* Token engine: src/src/tokenCrypto.ts *)

Options(compressOpt) ==
  [compress |-> compressOpt, audience |-> "", issuer |-> "", expirationTime |-> ""]

\* the values of options.compress; "undefined" is the option left out
CompressOptions == {"undefined", "true", "false", "gzip", "brotli", "none"}

\* a compact JWE: the protected header, the public half it was encrypted
\* to, and the claims inside
Jwe(header, publicKey, claims) ==
  [t |-> "jwe", v |-> [header |-> header, m |-> publicKey, claims |-> claims]]

\* new jose.EncryptJWT(payload).setIssuedAt().setJti(uuidv4())
\*   .setExpirationTime(expirationTime || '2h') [.setAudience] [.setIssuer]
WithClaims(processedPayload, options) ==
  LET c1 == Put(processedPayload, "iat", [t |-> "num", v |-> "now"])
      c2 == Put(c1, "jti", Str("uuid"))
      c3 == Put(c2, "exp",
                [t |-> "num",
                 v |-> IF options.expirationTime = "" THEN "now+2h"
                       ELSE options.expirationTime])
      c4 == IF options.audience # "" THEN Put(c3, "aud", Str(options.audience))
            ELSE c3
  IN IF options.issuer # "" THEN Put(c4, "iss", Str(options.issuer)) ELSE c4

\* the CompressedPayloadMarker encryptToken puts in place of the payload
Marker(compressed, originalSize, compressionMethod) ==
  << Fld("_compressed", [t |-> "base64", v |-> compressed]),
     Fld("_originalSize", [t |-> "num", v |-> originalSize]),
     Fld("_compression",
         Str(IF compressionMethod = "brotli" THEN "br" ELSE compressionMethod)) >>

\* the compression step of encryptToken: what is encrypted in place of the
\* payload, and the zip header ("" for none)
processedPayload(obj, options) ==
  LET wanted == options.compress # "false" /\ options.compress # "none"
      compressionMethod ==
        IF options.compress \in {"gzip", "brotli"} THEN options.compress
        ELSE "brotli"
      payloadBuffer == Buffer(JsonStringify(obj))
      compressed == compress(payloadBuffer, compressionMethod)
      smaller == wanted /\ ByteLength(compressed) < ByteLength(payloadBuffer)
  IN [payload |-> IF smaller
                  THEN Marker(compressed, ByteLength(payloadBuffer),
                              compressionMethod)
                  ELSE obj,
      zip |-> IF ~smaller THEN ""
              ELSE IF compressionMethod = "brotli" THEN "BR" ELSE "DEF"]

\* encryptToken without testing the record: reading the key throws
\* inside the try block, or jose is handed no key
encryptTokenWithoutKeyCheck(store, keyId, obj, options) ==
  LET keyPair == KeysGet(store, keyId)
      alg == IF keyPair.alg = "" THEN "RSA-OAEP-256" ELSE keyPair.alg
      processed == processedPayload(obj, options)
      protectedHeader == [alg |-> alg, enc |-> "A256GCM", kid |-> keyId,
                          zip |-> processed.zip]
  IN IF \/ keyPair.publicKey = NoKey
        \/ alg \notin EncryptionAlgs
        \/ processed.zip # ""
     THEN Thrown(UndefinedValue, "Token encryption failed")
     ELSE Returned(Jwe(protectedHeader, keyPair.publicKey.m,
                       WithClaims(processed.payload, options)))

\* TokenCrypto.encryptToken(keyId, payload, options).  jose 5 (package.json:
\* "jose": "^5.9.6") supports no "zip" header parameter: EncryptJWT.encrypt
\* and jwtDecrypt throw on a protected header that carries one.
encryptToken(store, keyId, obj, options) ==
  LET keyPair == KeysGet(store, keyId)
      alg == IF keyPair.alg = "" THEN "RSA-OAEP-256" ELSE keyPair.alg
      processed == processedPayload(obj, options)
      protectedHeader == [alg |-> alg, enc |-> "A256GCM", kid |-> keyId,
                          zip |-> processed.zip]
  IN IF keyPair.publicKey = NoKey
     THEN Thrown(UndefinedValue, "Encryption key not found")
     ELSE IF alg \notin EncryptionAlgs \/ processed.zip # ""
     THEN Thrown(UndefinedValue, "Token encryption failed")
     ELSE Returned(Jwe(protectedHeader, keyPair.publicKey.m,
                       WithClaims(processed.payload, options)))

\* a JavaScript value is truthy
Truthy(v) == v.t # "undefined" /\ v # Str("")

\* jose.jwtDecrypt validates the claims set it decrypted: an nbf that is
\* no number, or a time still ahead, is rejected; aud, iss and sub are
\* compared only when the caller asks for it, and decryptToken never does
ValidClaims(claims) ==
  HasField(claims, "nbf") => Get(claims, "nbf") = [t |-> "num", v |-> "past"]

\* TokenCrypto.decryptToken(keyId, encryptedJWT)
decryptToken(store, keyId, encryptedJWT) ==
  LET keyPair == KeysGet(store, keyId)
      claims == encryptedJWT.v.claims
      compressionType == Get(claims, "_compression")
      held == Get(claims, "_compressed")
      compressedBuffer ==
        IF held.t = "base64" THEN held.v
        ELSE [codec |-> "garbage", text |-> JsonStringify(<<>>)]
      method == IF compressionType = Str("br") THEN "brotli"
                ELSE IF compressionType = Str("gzip") THEN "gzip"
                ELSE "none"
      decompressed == decompress(compressedBuffer, method)
  IN IF keyPair.privateKey = NoKey
     THEN Thrown(<<>>, "Decryption key not found")
     ELSE IF \/ encryptedJWT.t # "jwe"
             \/ encryptedJWT.v.header.zip # ""
             \/ keyPair.privateKey.half # "private"
             \/ encryptedJWT.v.m # keyPair.privateKey.m
             \/ ~ValidClaims(claims)
     THEN Thrown(<<>>, "Token decryption failed")
     ELSE IF Truthy(held) /\ Truthy(compressionType)
     THEN IF decompressed.codec = "raw"
          THEN Returned(JsonParse(decompressed.text))
          ELSE Thrown(<<>>, "Token decryption failed")
     ELSE Returned(claims)

\* Array.from(this._keys.entries()): the identifiers in insertion order.
\* uuidv4 hands them out in the order of KeyNames, and set on an identifier
\* that is there keeps its place.
KeyEntries(store) ==
  LET there(k) == k \in DOMAIN store /\ store[k].present
  IN SelectSeq(KeyNames, there)

RECURSIVE TryKeys(_, _, _, _, _)
\* the loop of decryptTokenWithAnyKey over the entries still to visit
TryKeys(store, keyEntries, encryptedJWT, lastError, tried) ==
  IF keyEntries = <<>>
  THEN [t |-> "throw", v |-> << Fld("lastError", Str(lastError)) >>,
        err |-> "Token decryption failed with all available keys",
        calls |-> tried]
  ELSE LET keyId == Head(keyEntries)
           r == decryptToken(store, keyId, encryptedJWT)
       IN IF store[keyId].privateKey = NoKey
          THEN TryKeys(store, Tail(keyEntries), encryptedJWT, lastError, tried)
          ELSE IF r.t = "ok"
          THEN [t |-> "ok", v |-> r.v, err |-> "",
                calls |-> Append(tried, keyId)]
          ELSE TryKeys(store, Tail(keyEntries), encryptedJWT, r.err,
                       Append(tried, keyId))

\* the scan giving up at the first key that fails
decryptTokenWithFirstKey(store, encryptedJWT) ==
  LET held(k) == store[k].privateKey # NoKey
      holders == SelectSeq(KeyEntries(store), held)
      first == IF holders = <<>> THEN <<>> ELSE << Head(holders) >>
  IN TryKeys(store, first, encryptedJWT, "Unknown error", <<>>)

\* TokenCrypto.decryptTokenWithAnyKey(encryptedJWT); calls lists the keys
\* decryptToken was tried with, v of a failure holds the last error named
\* in its message
decryptTokenWithAnyKey(store, encryptedJWT) ==
  TryKeys(store, KeyEntries(store), encryptedJWT, "Unknown error", <<>>)

-----------------------------------------------------------------------------
(* Composition: src/src/cloudlessCrypto.ts *)

\* createHash('sha256').update(text).digest('hex'): texts that differ have
\* digests that differ
sha256(text) == [t |-> "hex", v |-> text.v]

\* a SignedObject handed to encryptToken as the payload: { signature,
\* protected, payload }
SignedAsPayload(sgn) ==
  << Fld("signature", [t |-> "signature", v |-> sgn.signature]),
     Fld("protected", [t |-> "protected", v |-> sgn.protected]),
     Fld("payload", Obj(sgn.payload)) >>

\* what verify reads of a decrypted object taken for a SignedObject
\* (decrypted as any): signature, protected and payload, where they are
PayloadAsSigned(o) ==
  LET sig == Get(o, "signature")
      prot == Get(o, "protected")
      payload == Get(o, "payload")
  IN SignedObject(IF sig.t = "signature" THEN sig.v ELSE InvalidSignature,
                  IF prot.t = "protected" THEN prot.v ELSE MalformedHeader,
                  IF payload.t = "obj" THEN payload.v ELSE <<>>)

\* CloudlessCrypto.signAndEncrypt(signingKey, encryptionKey, payload,
\* encryptionOptions)
signAndEncrypt(store, signingKey, encryptionKey, obj, options) ==
  LET sgn == sign(store, signingKey, obj)
  IN IF sgn.t = "throw" THEN Thrown(UndefinedValue, sgn.err)
     ELSE encryptToken(store, encryptionKey, SignedAsPayload(sgn.v), options)

\* a decryptAndVerify that rejects where the signature does not verify
decryptAndVerifyThrowing(store, decryptionKey, verificationKey, encryptedToken) ==
  LET decrypted == decryptToken(store, decryptionKey, encryptedToken)
      verified == verify(store, PayloadAsSigned(decrypted.v), verificationKey)
  IN IF decrypted.t = "throw" THEN Thrown(<<>>, decrypted.err)
     ELSE IF IsError(verified.v)
     THEN Thrown(<<>>, "Signature verification failed")
     ELSE verified

\* CloudlessCrypto.decryptAndVerify(decryptionKey, verificationKey,
\* encryptedToken)
decryptAndVerify(store, decryptionKey, verificationKey, encryptedToken) ==
  LET decrypted == decryptToken(store, decryptionKey, encryptedToken)
  IN IF decrypted.t = "throw" THEN Thrown(<<>>, decrypted.err)
     ELSE verify(store, PayloadAsSigned(decrypted.v), verificationKey)

\* the claim names verifyThenDecrypt deletes before it hashes
StrippedClaims == <<"iat", "exp", "aud", "iss", "jti", "nbf", "sub">>

RECURSIVE DeleteAll(_, _)
DeleteAll(o, names) ==
  IF names = <<>> THEN o ELSE DeleteAll(Delete(o, Head(names)), Tail(names))

\* encryptThenSign hashing the payload without the names verifyThenDecrypt
\* deletes
encryptThenSignHashingStripped(store, encryptionKey, signingKey, obj, options) ==
  LET payloadHash == sha256(stringify(DeleteAll(obj, StrippedClaims)))
      encrypted == encryptToken(store, encryptionKey, obj, options)
      signaturePayload ==
        << Fld("encrypted", encrypted.v), Fld("payloadHash", payloadHash),
           Fld("timestamp", [t |-> "num", v |-> "now"]),
           Fld("version", [t |-> "num", v |-> "1"]) >>
  IN IF encrypted.t = "throw" THEN Thrown(NoSigned, encrypted.err)
     ELSE sign(store, signingKey, signaturePayload)

\* CloudlessCrypto.encryptThenSign(encryptionKey, signingKey, payload, options)
encryptThenSign(store, encryptionKey, signingKey, obj, options) ==
  LET payloadHash == sha256(stringify(obj))
      encrypted == encryptToken(store, encryptionKey, obj, options)
      signaturePayload ==
        << Fld("encrypted", encrypted.v), Fld("payloadHash", payloadHash),
           Fld("timestamp", [t |-> "num", v |-> "now"]),
           Fld("version", [t |-> "num", v |-> "1"]) >>
  IN IF encrypted.t = "throw" THEN Thrown(NoSigned, encrypted.err)
     ELSE sign(store, signingKey, signaturePayload)

\* a verifyThenDecrypt that opens envelopes of version 1 only
verifyThenDecryptCheckingVersion(store, signingKey, encryptionKey, signedToken) ==
  LET verified == verify(store, signedToken, signingKey).v
      decrypted ==
        decryptToken(store, encryptionKey, Get(verified, "encrypted"))
      originalPayloadFields == DeleteAll(decrypted.v, StrippedClaims)
      actualHash == sha256(stringify(originalPayloadFields))
      calls == << "verify", "decryptToken" >>
  IN IF Get(verified, "version") # [t |-> "num", v |-> "1"]
     THEN [t |-> "throw", v |-> <<>>, err |-> "Unsupported version",
           calls |-> << "verify" >>]
     ELSE IF decrypted.t = "throw"
     THEN [t |-> "throw", v |-> <<>>, err |-> decrypted.err, calls |-> calls]
     ELSE IF actualHash # Get(verified, "payloadHash")
     THEN [t |-> "throw", v |-> <<>>, err |-> "Payload hash mismatch",
           calls |-> calls]
     ELSE [t |-> "ok", v |-> decrypted.v, err |-> "", calls |-> calls]

\* verifyThenDecrypt returning what was decrypted without comparing hashes
verifyThenDecryptUnhashed(store, signingKey, encryptionKey, signedToken) ==
  LET verified == verify(store, signedToken, signingKey).v
      decrypted ==
        decryptToken(store, encryptionKey, Get(verified, "encrypted"))
      calls == << "verify", "decryptToken" >>
  IN IF decrypted.t = "throw"
     THEN [t |-> "throw", v |-> <<>>, err |-> decrypted.err, calls |-> calls]
     ELSE [t |-> "ok", v |-> decrypted.v, err |-> "", calls |-> calls]

\* CloudlessCrypto.verifyThenDecrypt(signingKey, encryptionKey, signedToken);
\* calls lists the engine methods it invoked, in order
verifyThenDecrypt(store, signingKey, encryptionKey, signedToken) ==
  LET verified == verify(store, signedToken, signingKey).v
      decrypted ==
        decryptToken(store, encryptionKey, Get(verified, "encrypted"))
      originalPayloadFields == DeleteAll(decrypted.v, StrippedClaims)
      actualHash == sha256(stringify(originalPayloadFields))
      calls == << "verify", "decryptToken" >>
  IN IF decrypted.t = "throw"
     THEN [t |-> "throw", v |-> <<>>, err |-> decrypted.err, calls |-> calls]
     ELSE IF actualHash # Get(verified, "payloadHash")
     THEN [t |-> "throw", v |-> <<>>, err |-> "Payload hash mismatch",
           calls |-> calls]
     ELSE [t |-> "ok", v |-> decrypted.v, err |-> "", calls |-> calls]

-----------------------------------------------------------------------------
(* State *)

Res(op, key, encKey, out, calls) ==
  [op |-> op, key |-> key, encKey |-> encKey, options |-> Options("undefined"),
   t |-> out.t, value |-> out.v, err |-> out.err, calls |-> calls]

NoRes == Res("none", "", "", [t |-> "none", v |-> <<>>, err |-> ""], <<>>)

Orig(op, key, encKey, options, tamper) ==
  [op |-> op, key |-> key, encKey |-> encKey, options |-> options,
   tamper |-> tamper]

NoOrig == Orig("none", "", "", Options("undefined"), "none")

\* a string that is no JWE ('fake-token')
FakeToken == Str("fake-token")

\* new Map(): no record under any identifier
EmptyMap == [k \in KeyIds |-> NoRecord]

\* one object in Node.js: no token held, no second object, no other Map
OthersInit ==
  /\ token = FakeToken
  /\ runtime = NodeRuntime
  /\ peer = [k \in KeyIds |-> NoRecord]
  /\ maps = <<>>
  /\ engines = <<>>
  /\ wasm = NoWasm
  /\ inflight = NoCalls

Init ==
  /\ OthersInit
  /\ keys = [k \in KeyIds |-> NoRecord]
  /\ cart \in Payloads
  /\ signed = NoSigned
  /\ orig = NoOrig
  /\ res = NoRes

\* JsonSignature.generateKeyPair(alg)
GenerateKeyPair(alg) ==
  /\ ~StoreFull(keys)
  /\ LET key == uuidv4(keys)
     IN /\ keys' = KeysSet(keys, key,
                           KeyPair(PublicHalf(key), PrivateHalf(key), alg))
        /\ res' = Res("generateKeyPair", key, "", Returned(<<>>), <<>>)
  /\ UNCHANGED <<cart, signed, orig, others>>

\* JsonSignature.sign(key, obj), the caller keeping the result
Sign(key) ==
  LET obj == cart
      r == sign(keys, key, obj)
  IN /\ res' = Res("sign", key, "", [r EXCEPT !.v = <<>>], <<>>)
     /\ IF r.t = "ok"
        THEN /\ signed' = r.v
             /\ orig' = Orig("sign", key, "", Options("undefined"), "none")
        ELSE UNCHANGED <<signed, orig>>
     /\ UNCHANGED <<keys, cart, others>>

\* JsonSignature.verify(signed, key) on the object the caller holds
Verify(key) ==
  /\ res' = Res("verify", key, "", verify(keys, signed, key), <<>>)
  /\ UNCHANGED <<keys, cart, signed, orig, others>>

-----------------------------------------------------------------------------
(* What a holder of a SignedObject can do to it before handing it on *)

RECURSIVE Edits(_)
\* the objects one step away from o: a field added, removed or changed,
\* at any depth
Edits(o) ==
  (IF HasField(o, "z") THEN {} ELSE {Append(o, Fld("z", Str("tampered")))})
    \cup {Delete(o, o[i].k) : i \in DOMAIN o}
    \cup {Put(o, o[i].k, Str("tampered")) : i \in DOMAIN o}
    \cup UNION { {Put(o, o[i].k, Obj(e)) : e \in Edits(o[i].v.v)} :
                   i \in {j \in DOMAIN o : o[j].v.t = "obj"} }

RECURSIVE Reorderings(_), InnerReorderings(_)
\* the objects that are o up to the order of the keys, at any depth
Reorderings(o) ==
  LET n == Len(o)
      Perms == {p \in [1..n -> 1..n] : \A i, j \in 1..n : i # j => p[i] # p[j]}
  IN UNION { {[i \in 1..n |-> b[p[i]]] : p \in Perms} : b \in InnerReorderings(o) }

InnerReorderings(o) ==
  IF o = <<>> THEN {<<>>}
  ELSE LET h == Head(o)
           Values == IF h.v.t = "obj"
                     THEN {Obj(r) : r \in Reorderings(h.v.v)}
                     ELSE {h.v}
       IN { <<Fld(h.k, v)>> \o rest :
              v \in Values, rest \in InnerReorderings(Tail(o)) }

\* signature strings other than the one the object carries: garbage, and the
\* signatures the keys of the store give for this payload
OtherSignatures(store, sgn) ==
  ({InvalidSignature}
     \cup {sign(store, k, sgn.payload).v.signature : k \in DOMAIN store})
    \ {sgn.signature}

OtherHeaders(store, sgn) ==
  ({MalformedHeader}
     \cup {ProtectedHeader(sgn.protected.alg, k) : k \in DOMAIN store \cup {""}})
    \ {sgn.protected}

Untouched == orig.op # "none" /\ orig.tamper = "none"

TamperSignature ==
  /\ Untouched
  /\ \E s \in OtherSignatures(keys, signed) :
       signed' = [signed EXCEPT !.signature = s]
  /\ orig' = [orig EXCEPT !.tamper = "signature"]
  /\ res' = NoRes
  /\ UNCHANGED <<keys, cart, others>>

TamperHeader ==
  /\ Untouched
  /\ \E h \in OtherHeaders(keys, signed) :
       signed' = [signed EXCEPT !.protected = h]
  /\ orig' = [orig EXCEPT !.tamper = "protected"]
  /\ res' = NoRes
  /\ UNCHANGED <<keys, cart, others>>

\* what can be patched in an encrypt-then-sign envelope: the hash replaced by
\* a string that is no digest or by the digest of another payload, the token
\* replaced by one for another payload
EnvelopeEdits(store, env, o) ==
  LET other == << Fld("z", Str("tampered")) >>
  IN { Put(env, "payloadHash", Str("invalid-hash")),
       Put(env, "payloadHash", sha256(stringify(other))),
       Put(env, "encrypted", encryptToken(store, o.encKey, other, o.options).v) }

TamperPayload ==
  /\ Untouched
  /\ \E e \in (IF orig.op = "sign" THEN Edits(signed.payload)
              ELSE EnvelopeEdits(keys, signed.payload, orig)) :
       signed' = [signed EXCEPT !.payload = e]
  /\ orig' = [orig EXCEPT !.tamper = "payload"]
  /\ res' = NoRes
  /\ UNCHANGED <<keys, cart, others>>

ReorderPayload ==
  /\ Untouched
  /\ orig.op = "sign"
  /\ \E r \in Reorderings(signed.payload) \ {signed.payload} :
       signed' = [signed EXCEPT !.payload = r]
  /\ orig' = [orig EXCEPT !.tamper = "reorder"]
  /\ res' = NoRes
  /\ UNCHANGED <<keys, cart, others>>

-----------------------------------------------------------------------------
(* Composition layer over the shared store *)

\* TokenCrypto.generateKeyPairForEncryption(alg)
GenerateKeyPairForEncryption(alg) ==
  /\ ~StoreFull(keys)
  /\ LET key == uuidv4(keys)
     IN /\ keys' = KeysSet(keys, key,
                           KeyPair(PublicHalf(key), PrivateHalf(key), alg))
        /\ res' = Res("generateKeyPairForEncryption", key, "", Returned(<<>>),
                      <<>>)
  /\ UNCHANGED <<cart, signed, orig, others>>

\* CloudlessCrypto.encryptThenSign(encryptionKey, signingKey, cart, options),
\* the caller keeping the result
EncryptThenSign(encryptionKey, signingKey, options) ==
  LET r == encryptThenSign(keys, encryptionKey, signingKey, cart, options)
  IN /\ res' = Res("encryptThenSign", signingKey, encryptionKey,
                   [r EXCEPT !.v = <<>>], <<>>)
     /\ IF r.t = "ok"
        THEN /\ signed' = r.v
             /\ orig' = Orig("encryptThenSign", signingKey, encryptionKey,
                             options, "none")
        ELSE UNCHANGED <<signed, orig>>
     /\ UNCHANGED <<keys, cart, others>>

\* CloudlessCrypto.signObject(key, payload) on the payload of a patched
\* envelope, the caller keeping the result
Resign(key) ==
  LET r == sign(keys, key, signed.payload)
  IN /\ orig.op = "encryptThenSign"
     /\ orig.tamper = "payload"
     /\ res' = Res("signObject", key, "", [r EXCEPT !.v = <<>>], <<>>)
     /\ IF r.t = "ok"
        THEN /\ signed' = r.v
             /\ orig' = [orig EXCEPT !.tamper = "resigned"]
        ELSE UNCHANGED <<signed, orig>>
     /\ UNCHANGED <<keys, cart, others>>

\* CloudlessCrypto.verifyThenDecrypt(signingKey, encryptionKey, signed)
VerifyThenDecrypt(signingKey, encryptionKey) ==
  LET r == verifyThenDecrypt(keys, signingKey, encryptionKey, signed)
  IN /\ res' = Res("verifyThenDecrypt", signingKey, encryptionKey,
                   [t |-> r.t, v |-> r.v, err |-> r.err], r.calls)
     /\ UNCHANGED <<keys, cart, signed, orig, others>>

\* the options.compress values the composition is driven with
ComposeOptions == {Options("undefined"), Options("false")}

KeyArgs == KeyIds \cup {""}

-----------------------------------------------------------------------------
(* The signing engine, and the envelopes the composition signs.  The caller *)
(* protects the cart once in a run: sign and encryptThenSign are driven     *)
(* while the caller holds no SignedObject yet.                              *)

SignNext ==
  \/ \E alg \in SigningAlgs : GenerateKeyPair(alg)
  \/ \E alg \in EncryptionAlgs : GenerateKeyPairForEncryption(alg)
  \/ /\ orig.op = "none"
     /\ \E key \in KeyArgs : Sign(key)
  \/ /\ orig.op = "none"
     /\ \E e \in KeyArgs, s \in KeyArgs, o \in ComposeOptions :
          EncryptThenSign(e, s, o)
  \/ \E key \in KeyArgs \cup {UndefinedKey} : Verify(key)
  \/ TamperSignature
  \/ TamperHeader
  \/ TamperPayload
  \/ ReorderPayload

SignSpec == Init /\ [][SignNext]_vars

-----------------------------------------------------------------------------
(* The composition: envelopes produced, patched, re-signed and opened.     *)
(* encryptThenSign is driven while the caller holds no SignedObject yet;   *)
(* the key arguments range over the identifiers of the store and the empty *)
(* string.                                                                 *)

Next ==
  \/ \E alg \in SigningAlgs : GenerateKeyPair(alg)
  \/ \E alg \in EncryptionAlgs : GenerateKeyPairForEncryption(alg)
  \/ /\ orig.op = "none"
     /\ \E e \in KeyArgs, s \in KeyArgs, o \in ComposeOptions :
          EncryptThenSign(e, s, o)
  \/ TamperSignature
  \/ TamperHeader
  \/ TamperPayload
  \/ \E key \in KeyIds : Resign(key)
  \/ \E s \in KeyArgs, e \in KeyArgs : VerifyThenDecrypt(s, e)

Spec == Init /\ [][Next]_vars

-----------------------------------------------------------------------------
(* Sign / verify round trip, key-order independence, tamper evidence *)

\* the caller holds what sign(orig.key, cart) returned, as returned
HoldsSigned == orig.op = "sign" /\ orig.tamper = "none"

\* C8: for every payload P and signing key S, sign(S, P) returns a
\* SignedObject whose payload equals P and whose protected header carries S
\* as kid, and verify of that object with no key argument finds the key by
\* that kid and returns an object equal to P.
SignVerifyRoundTrip ==
  /\ HoldsSigned =>
       /\ SameObject(signed.payload, cart)
       /\ signed.protected.kid = orig.key
  /\ (HoldsSigned /\ res.op = "verify" /\ res.key = UndefinedKey) =>
       /\ ~IsError(res.value)
       /\ SameObject(res.value, cart)

\* a nested payload was signed and verified with no key argument
SignVerifyRoundTripWitness ==
  /\ HoldsSigned
  /\ res.op = "verify"
  /\ res.key = UndefinedKey
  /\ Get(cart, "n") = Obj(<< Fld("x", Obj(YX)) >>)
  /\ SameObject(res.value, cart)

\* the hash encryptThenSign puts in the envelope for payload obj
PayloadHashFor(store, o, obj) ==
  Get(encryptThenSign(store, o.encKey, o.key, obj, o.options).v.payload,
      "payloadHash")

\* C9: signing and verification do not depend on property order: after the
\* payload of a SignedObject made by sign(S, P) is replaced by a reordering
\* of P (at any depth), verify with the signing key or with no key still
\* returns P; and encryptThenSign puts the same payloadHash in the envelope
\* for P and for every reordering of P.
KeyOrderIndependence ==
  /\ (/\ orig.op = "sign"
      /\ orig.tamper = "reorder"
      /\ res.op = "verify"
      /\ res.key \in {orig.key, UndefinedKey}) =>
       /\ ~IsError(res.value)
       /\ SameObject(res.value, cart)
  /\ (orig.op = "encryptThenSign" /\ orig.tamper = "none") =>
       \A r \in Reorderings(cart) :
          PayloadHashFor(keys, orig, r) = Get(signed.payload, "payloadHash")

\* a payload reordered at the top and inside a nested object still verified
KeyOrderIndependenceWitness ==
  /\ orig.op = "sign"
  /\ orig.tamper = "reorder"
  /\ res.op = "verify"
  /\ res.key = orig.key
  /\ Len(signed.payload) = 2
  /\ signed.payload # SortFields(signed.payload)
  /\ Get(signed.payload, "n") = Obj(YX)
  /\ ~IsError(res.value)

\* C10: after sign(S, P), once the signature string was changed, or the
\* payload was changed in a way that alters its canonical serialization (a
\* field added, removed or changed at any depth), verify returns an
\* error-tagged result, whatever key argument it is given.
TamperEvident ==
  (/\ orig.op = "sign"
   /\ \/ orig.tamper = "signature"
      \/ orig.tamper = "payload" /\ stringify(signed.payload) # stringify(cart)
   /\ res.op = "verify") => IsError(res.value)

\* a field two levels down was changed, and verify with the signing key
\* answered with an error
TamperEvidentWitness ==
  /\ orig.op = "sign"
  /\ orig.tamper = "payload"
  /\ res.op = "verify"
  /\ res.key = orig.key
  /\ Get(cart, "n") = Obj(<< Fld("x", Obj(YX)) >>)
  /\ Get(signed.payload, "n")
       = Obj(<< Fld("x", Obj(<< Fld("x", Str("tampered")), Fld("y", Str("1")) >>)) >>)
  /\ IsError(res.value)

\* the key identifier _verify looks the public key up under
ResolvedKid(sgn, key) == IF Falsy(key) THEN sgn.protected.kid ELSE key

\* the signature of sgn verifies under the public key stored at key
VerifiesUnder(store, sgn, key) ==
  LET value == KeysGet(store, key)
  IN /\ value.publicKey # NoKey
     /\ sgn.protected.wellFormed
     /\ FlattenedVerify([signature |-> sgn.signature,
                         protected |-> sgn.protected,
                         payload |-> stringify(sgn.payload)],
                        value.publicKey, value.alg) = ""

\* why verify(sgn, key) cannot succeed: the protected header is malformed,
\* no key id can be resolved, no public key is stored under the resolved
\* id, or the cryptographic check fails; "none" otherwise
VerifyFailure(store, sgn, key) ==
  IF ~sgn.protected.wellFormed THEN "header"
  ELSE IF ResolvedKid(sgn, key) = "" THEN "kid"
  ELSE IF KeysGet(store, ResolvedKid(sgn, key)).publicKey = NoKey THEN "key"
  ELSE IF ~VerifiesUnder(store, sgn, ResolvedKid(sgn, key)) THEN "check"
  ELSE "none"

\* the last call was verify(signed, res.key); it returned, and where the
\* header, the key id, the key or the check failed, what it returned is an
\* object with an error message
VerifyReturnsErrors ==
  res.op = "verify" =>
    /\ res.t = "ok"
    /\ VerifyFailure(keys, signed, res.key) # "none" =>
         /\ IsError(res.value)
         /\ Get(res.value, "error").t = "str"
         /\ Get(res.value, "error") # Str("")

-----------------------------------------------------------------------------
(* Encrypt-then-sign: round trip, ordering of the checks, failure causes *)

\* the caller holds what encryptThenSign(orig.encKey, orig.key, cart) returned
HoldsEnvelope == orig.op = "encryptThenSign" /\ orig.tamper = "none"

\* the last call was verifyThenDecrypt(res.key, res.encKey, signed)
Opened == res.op = "verifyThenDecrypt"

\* C1: for every payload P and every signing key S and encryption key E of
\* the store, verifyThenDecrypt(S, E, encryptThenSign(E, S, P)) resolves and
\* its result contains every field of P with the same value.
EncryptThenSignRoundTrip ==
  (HoldsEnvelope /\ Opened /\ res.key = orig.key /\ res.encKey = orig.encKey) =>
     /\ res.t = "ok"
     /\ Contains(res.value, cart)

\* the signature of the envelope does not verify under the key argument
SignatureFails == IsError(verify(keys, signed, res.key).v)

\* C2: whenever signature verification of the envelope fails,
\* verifyThenDecrypt fails without having invoked TokenCrypto.decryptToken.
FailsBeforeDecryption ==
  (Opened /\ orig.op = "encryptThenSign" /\ SignatureFails) =>
     /\ res.t = "throw"
     /\ \A i \in DOMAIN res.calls : res.calls[i] # "decryptToken"

\* what decrypting the token of the envelope under encKey gives
Decrypted(store, sgn, encKey) ==
  decryptToken(store, encKey, Get(sgn.payload, "encrypted"))

\* the hash of what was decrypted, the standard claims stripped, is the
\* payloadHash of the envelope
HashMatches(store, sgn, encKey) ==
  sha256(stringify(DeleteAll(Decrypted(store, sgn, encKey).v, StrippedClaims)))
    = Get(sgn.payload, "payloadHash")

\* C3: verifyThenDecrypt(S, E, T) resolves only if T's signature verified
\* under the public key stored at S, T.payload.encrypted decrypted under the
\* private key stored at E and the recomputed hash equalled
\* T.payload.payloadHash; with a corrupted signature, a signing key other
\* than the one that signed or an encryption key other than the one
\* encrypted to, it rejects and returns no payload data.
ResolvesOnlyIfAllChecksPassed ==
  /\ (Opened /\ res.t = "ok") =>
       /\ VerifiesUnder(keys, signed, res.key)
       /\ Decrypted(keys, signed, res.encKey).t = "ok"
       /\ HashMatches(keys, signed, res.encKey)
  /\ (/\ Opened
      /\ orig.op = "encryptThenSign"
      /\ \/ orig.tamper = "signature"
         \/ orig.tamper = "none" /\ res.key # orig.key
         \/ orig.tamper = "none" /\ res.encKey # orig.encKey) =>
       /\ res.t = "throw"
       /\ res.value = <<>>

\* C4: if the envelope is validly signed and its token decrypts, but its
\* payloadHash differs from the SHA-256 of the canonical serialization of
\* the decrypted payload with the standard claims stripped,
\* verifyThenDecrypt rejects with 'Payload hash mismatch' and returns no
\* data.
HashMismatchRejected ==
  (/\ Opened
   /\ orig.op = "encryptThenSign"
   /\ VerifiesUnder(keys, signed, ResolvedKid(signed, res.key))
   /\ Decrypted(keys, signed, res.encKey).t = "ok"
   /\ ~HashMatches(keys, signed, res.encKey)) =>
     /\ res.t = "throw"
     /\ res.err = "Payload hash mismatch"
     /\ res.value = <<>>

\* payloadHash was replaced, the envelope signed again with the same signing
\* key, and verifyThenDecrypt with the right keys rejected it for the hash
HashMismatchRejectedWitness ==
  /\ Opened
  /\ orig.op = "encryptThenSign"
  /\ orig.tamper = "resigned"
  /\ signed.protected.kid = orig.key
  /\ res.key = orig.key
  /\ res.encKey = orig.encKey
  /\ Get(signed.payload, "payloadHash") = Str("invalid-hash")
  /\ res.err = "Payload hash mismatch"

\* the check of verifyThenDecrypt that fails first on the envelope
FailureCause ==
  IF SignatureFails THEN "signature"
  ELSE IF Decrypted(keys, signed, res.encKey).t = "throw" THEN "decryption"
  ELSE IF ~HashMatches(keys, signed, res.encKey) THEN "hash"
  ELSE "none"

\* the cause an error message of verifyThenDecrypt names
CauseNamed(err) ==
  IF err = "Payload hash mismatch" THEN "hash"
  ELSE IF err \in {"Decryption key not found", "Token decryption failed"}
  THEN "decryption"
  ELSE "signature"

\* C5: a signature-verification failure, a decryption failure and a
\* payload-hash mismatch of verifyThenDecrypt each yield an error that names
\* that cause and no other, whatever keys are present or passed.
FailureCausesDistinguishable ==
  (Opened /\ orig.op = "encryptThenSign") =>
     \/ FailureCause = "none" /\ res.t = "ok"
     \/ FailureCause # "none" /\ res.t = "throw"
          /\ CauseNamed(res.err) = FailureCause

\* what a party that can verify but not decrypt sees of an envelope
Observable(store, sgn) ==
  [valid |-> ~IsError(verify(store, sgn, UndefinedKey).v),
   payloadHash |-> Get(sgn.payload, "payloadHash"),
   version |-> Get(sgn.payload, "version")]

\* C6: the envelope carries no field value of P outside the token, and what
\* a party without the decryption key observes of the envelope of P is what
\* it observes of the envelope of any other payload made under the same keys
\* and options, so that it cannot tell whether two envelopes hold the same
\* payload.
EnvelopeRevealsNothing ==
  HoldsEnvelope =>
    /\ \A i \in DOMAIN signed.payload :
         signed.payload[i].v.t \in {"jwe", "hex", "num"}
    /\ \A p \in Payloads :
         LET other == encryptThenSign(keys, orig.encKey, orig.key, p,
                                      orig.options)
         IN other.t = "ok" =>
              Observable(keys, other.v) = Observable(keys, signed)

-----------------------------------------------------------------------------
(* Forgery: a party whose store holds the encryption key pair E and only   *)
(* the public half of the signing key S works on envelopes, and hands them *)
(* to the holder of both key pairs.                                        *)

StoreIds == KeyIds \cup {"S", "E"}

\* the store of the holder of S and E
HolderStore ==
  [k \in StoreIds |->
     IF k = "S" THEN KeyPair(PublicHalf("S"), PrivateHalf("S"), "PS256")
     ELSE IF k = "E"
     THEN KeyPair(PublicHalf("E"), PrivateHalf("E"), "RSA-OAEP-256")
     ELSE NoRecord]

\* JsonSignature.importKeyPair(key, pub, priv, alg)
ImportKeyPair(key, pub, priv, alg) ==
  /\ keys' = KeysSet(keys, key,
                     KeyPair(importJWK(pub, alg), importJWK(priv, alg), alg))
  /\ res' = Res("importKeyPair", key, "", Returned(<<>>), <<>>)
  /\ UNCHANGED <<cart, signed, orig, others>>

\* JsonSignature.setPrivateKey(key, value)
SetPrivateKey(key, value) ==
  /\ keys' = KeysSet(keys, key, KeyPair(NoKey, importJWK(value, ""), ""))
  /\ res' = Res("setPrivateKey", key, "", Returned(<<>>), <<>>)
  /\ UNCHANGED <<cart, signed, orig, others>>

\* a setPublicKey that updates the public half of the record that is there
SetPublicKeyKeepingRest(key, value) ==
  /\ keys' = KeysSet(keys, key,
                     KeyPair(importJWK(value, ""), keys[key].privateKey,
                             keys[key].alg))
  /\ res' = Res("setPublicKey", key, "", Returned(<<>>), <<>>)
  /\ UNCHANGED <<cart, signed, orig, others>>

\* JsonSignature.setPublicKey(key, value)
SetPublicKey(key, value) ==
  /\ keys' = KeysSet(keys, key, KeyPair(importJWK(value, ""), NoKey, ""))
  /\ res' = Res("setPublicKey", key, "", Returned(<<>>), <<>>)
  /\ UNCHANGED <<cart, signed, orig, others>>

\* the store after setPublicKey("S", the public half of S) and
\* importKeyPairForEncryption("E", both halves of E)
ForgerStore ==
  [HolderStore EXCEPT !["S"] = KeyPair(PublicHalf("S"), NoKey, "")]

\* the key objects getPublicKey and exportKeyPair give from a store
KnownKeys(store) ==
  ({store[k].publicKey : k \in DOMAIN store}
     \cup {store[k].privateKey :
             k \in {j \in DOMAIN store : store[j].publicKey # NoKey}})
    \ {NoKey}

\* the envelope the holder of S and E made for the cart
Genuine == encryptThenSign(HolderStore, "E", "S", cart, orig.options).v

\* the payload the forger wants accepted
ForgedCart == << Fld("z", Str("tampered")) >>

\* the envelopes at hand: the genuine one, and what encryptThenSign gives in
\* this store for the forged cart, encrypted to E, under each signing key
EnvelopesAtHand(store) ==
  {Genuine}
    \cup {encryptThenSign(store, "E", s, ForgedCart, orig.options).v :
            s \in {k \in DOMAIN store :
                     encryptThenSign(store, "E", k, ForgedCart,
                                     orig.options).t = "ok"}}

\* an envelope put together from the signature of one envelope at hand, the
\* payload of another, and a protected header of either or one naming S
Assemble ==
  /\ \E x \in EnvelopesAtHand(keys), y \in EnvelopesAtHand(keys) :
       \E h \in {x.protected, y.protected,
                 ProtectedHeader(x.protected.alg, "S")} :
          signed' = SignedObject(x.signature, h, y.payload)
  /\ orig' = [orig EXCEPT !.tamper = "assembled"]
  /\ res' = NoRes
  /\ UNCHANGED <<keys, cart, others>>

\* verifyThenDecrypt("S", "E", signed) by the holder of S and E
HolderVerifyThenDecrypt ==
  LET r == verifyThenDecrypt(HolderStore, "S", "E", signed)
  IN /\ res' = Res("verifyThenDecrypt", "S", "E",
                   [t |-> r.t, v |-> r.v, err |-> r.err], r.calls)
     /\ UNCHANGED <<keys, cart, signed, orig, others>>

ForgeCarts == {p \in Payloads : \A i \in DOMAIN p : p[i].k = "a"}

ForgeInit ==
  /\ token = FakeToken
  /\ runtime = NodeRuntime
  /\ peer = HolderStore
  /\ maps = <<>>
  /\ engines = <<>>
  /\ wasm = NoWasm
  /\ inflight = NoCalls
  /\ keys = ForgerStore
  /\ cart \in ForgeCarts
  /\ \E o \in ComposeOptions :
       /\ orig = Orig("encryptThenSign", "S", "E", o, "none")
       /\ signed = encryptThenSign(HolderStore, "E", "S", cart, o).v
  /\ res = NoRes

ForgeNext ==
  \/ \E alg \in SigningAlgs : GenerateKeyPair(alg)
  \/ \E alg \in EncryptionAlgs : GenerateKeyPairForEncryption(alg)
  \/ \E priv \in KnownKeys(keys), alg \in SigningAlgs :
       ImportKeyPair("S", exportJWK(PublicHalf("S")), exportJWK(priv), alg)
  \/ \E value \in KnownKeys(keys) : SetPrivateKey("S", exportJWK(value))
  \/ \E value \in {v \in KnownKeys(keys) : v.half = "public"} :
       SetPublicKey("S", exportJWK(value))
  \/ Assemble
  \/ HolderVerifyThenDecrypt

ForgeSpec == ForgeInit /\ [][ForgeNext]_vars

\* C7: whatever library operations a party performs on a store with the key
\* pair E and only the public half of S, an envelope T for which
\* verifyThenDecrypt(S, E, T) resolves at the holder of S and E is the
\* envelope the holder of S's private key signed.
NoForgery ==
  (Opened /\ res.t = "ok") =>
     /\ signed.signature = Genuine.signature
     /\ signed.protected = Genuine.protected
     /\ stringify(signed.payload) = stringify(Genuine.payload)

\* an envelope for the forged cart, encrypted to E with a matching hash,
\* signed in the forger's store under the identifier S, was handed to the
\* holder and rejected
NoForgeryWitness ==
  /\ Opened
  /\ res.t = "throw"
  /\ signed.protected.kid = "S"
  /\ signed.signature.protected = signed.protected
  /\ signed.signature.payload = stringify(signed.payload)
  /\ Decrypted(HolderStore, signed, "E").t = "ok"
  /\ HashMatches(HolderStore, signed, "E")
  /\ Contains(Decrypted(HolderStore, signed, "E").v, ForgedCart)

-----------------------------------------------------------------------------
(* The token engine in every runtime: tokens made with every compress      *)
(* option, opened with one key or with any.  A token is made while the     *)
(* caller holds none yet.                                                  *)

\* TokenCrypto.encryptToken(keyId, cart, options), the caller keeping the
\* token
EncryptToken(keyId, options) ==
  LET r == encryptToken(keys, keyId, cart, options)
  IN /\ res' = [Res("encryptToken", "", keyId, [r EXCEPT !.v = <<>>], <<>>)
                  EXCEPT !.options = options]
     /\ IF r.t = "ok"
        THEN /\ token' = r.v
             /\ orig' = Orig("encryptToken", "", keyId, options, "none")
        ELSE UNCHANGED <<token, orig>>
     /\ UNCHANGED <<keys, cart, signed, runtime, peer, maps, engines,
                 wasm, inflight>>

\* TokenCrypto.decryptToken(keyId, token)
DecryptToken(keyId) ==
  /\ res' = Res("decryptToken", "", keyId, decryptToken(keys, keyId, token),
                <<>>)
  /\ UNCHANGED <<keys, cart, signed, orig, others>>

\* TokenCrypto.decryptTokenWithAnyKey(token)
DecryptTokenWithAnyKey ==
  LET r == decryptTokenWithAnyKey(keys, token)
  IN /\ res' = Res("decryptTokenWithAnyKey", "", "",
                   [t |-> r.t, v |-> r.v, err |-> r.err], r.calls)
     /\ UNCHANGED <<keys, cart, signed, orig, others>>

\* JsonSignature.getPublicKey(key)
GetPublicKey(key) ==
  LET r == getPublicKey(keys, key)
  IN /\ res' = Res("getPublicKey", key, "",
                   [t |-> r.t, v |-> <<>>, err |-> r.err], <<>>)
     /\ UNCHANGED <<keys, cart, signed, orig, others>>

\* enableBrotliWasm()
EnableBrotliWasm ==
  /\ runtime' = enableBrotliWasm(runtime)
  /\ res' = Res("enableBrotliWasm", "", "", Returned(<<>>), <<>>)
  /\ UNCHANGED <<keys, cart, signed, token, orig, peer, maps, engines,
                 wasm, inflight>>

\* disableBrotliWasm()
DisableBrotliWasm ==
  /\ runtime' = disableBrotliWasm(runtime)
  /\ res' = Res("disableBrotliWasm", "", "", Returned(<<>>), <<>>)
  /\ UNCHANGED <<keys, cart, signed, token, orig, peer, maps, engines,
                 wasm, inflight>>

\* the options encryptToken is driven with: every value of compress, and
\* audience, issuer and expirationTime with compression on and off
TokenOptions ==
  {Options(c) : c \in CompressOptions}
    \cup {[Options(c) EXCEPT !.audience = "test-app", !.issuer = "test-issuer",
                            !.expirationTime = "1h"] :
            c \in {"undefined", "false"}}

TokenInit ==
  /\ keys = [k \in KeyIds |-> NoRecord]
  /\ cart \in Payloads
  /\ signed = NoSigned
  /\ token = FakeToken
  /\ orig = NoOrig
  /\ res = NoRes
  /\ runtime \in Runtimes
  /\ peer = [k \in KeyIds |-> NoRecord]
  /\ maps = <<>>
  /\ engines = <<>>
  /\ wasm = NoWasm
  /\ inflight = NoCalls

TokenNext ==
  \/ \E alg \in EncryptionAlgs : GenerateKeyPairForEncryption(alg)
  \/ \E k \in {i \in KeyIds : keys[i].publicKey # NoKey} :
       SetPublicKey(k, exportJWK(keys[k].publicKey))
  \/ /\ orig.op = "none"
     /\ \E keyId \in KeyIds, options \in TokenOptions :
          EncryptToken(keyId, options)
  \/ \E keyId \in KeyIds : DecryptToken(keyId)
  \/ DecryptTokenWithAnyKey
  \/ EnableBrotliWasm
  \/ DisableBrotliWasm

TokenSpec == TokenInit /\ [][TokenNext]_vars

\* the store has a key pair for encryption under keyId
IsEncryptionKey(store, keyId) ==
  LET keyPair == KeysGet(store, keyId)
  IN /\ keyPair.publicKey # NoKey
     /\ keyPair.privateKey # NoKey
     /\ keyPair.alg \in EncryptionAlgs

\* the caller holds what encryptToken(orig.encKey, cart, orig.options)
\* returned
HoldsToken == orig.op = "encryptToken"

\* C12: for every payload P, encryption key E and compress option (default,
\* true, false, 'gzip', 'brotli', 'none'), encryptToken(E, P, options) gives
\* a token and decryptToken(E, that token) returns an object containing
\* every field of P with the same value, whether compression was applied or
\* was skipped for want of a size benefit.
CompressionTransparent ==
  /\ (res.op = "encryptToken" /\ IsEncryptionKey(keys, res.encKey)) =>
       res.t = "ok"
  /\ (/\ res.op = "decryptToken"
      /\ HoldsToken
      /\ res.encKey = orig.encKey
      /\ IsEncryptionKey(keys, res.encKey)) =>
       /\ res.t = "ok"
       /\ Contains(res.value, cart)

\* the tag that names a codec: in the marker and in the zip header
TagOf(codec) ==
  [_compression |-> Str(IF codec = "brotli" THEN "br" ELSE codec),
   zip |-> IF codec = "brotli" THEN "BR" ELSE "DEF"]

\* C19: in every token encryptToken makes, the persisted compression tag
\* (the _compression field of the marker and the zip header) names the
\* codec that produced the compressed bytes, in every runtime kind and
\* opt-in state, also when a brotli request fell back to gzip.  Stated of
\* the marker and header the last encryptToken call assembled for the
\* token.
TagNamesCodecThatRan ==
  (res.op = "encryptToken" /\ KeysGet(keys, res.encKey).publicKey # NoKey) =>
    LET processed == processedPayload(cart, res.options)
        ran == Get(processed.payload, "_compressed").v.codec
    IN processed.zip # "" =>
         /\ Get(processed.payload, "_compression") = TagOf(ran)._compression
         /\ processed.zip = TagOf(ran).zip

\* the method encryptToken asks compress for under options ("none": it
\* does not ask)
RequestedMethod(options) ==
  IF options.compress \in {"false", "none"} THEN "none"
  ELSE IF options.compress = "gzip" THEN "gzip"
  ELSE "brotli"

\* compression was asked for and no codec of the runtime can do it: the
\* codec throws, or there is none, and so for the codec fallen back to
CompressionFails(options) ==
  LET method == RequestedMethod(options)
  IN /\ method # "none"
     /\ CASE runtime.kind = "node" -> runtime[method] = "fails"
          [] runtime.kind = "browser" ->
               /\ runtime.gzip = "fails"
               /\ method = "brotli" =>
                    ~runtime.wasmEnabled \/ runtime.brotli = "fails"
          [] OTHER -> TRUE

PrivateKeyHolders(store) ==
  LET held(k) == store[k].privateKey # NoKey
  IN SelectSeq(KeyEntries(store), held)

\* decryptToken with the i-th holder of a private key opens the held token
Opens(i) == decryptToken(keys, PrivateKeyHolders(keys)[i], token).t = "ok"

HasClaims(o, options) ==
  /\ HasField(o, "iat")
  /\ HasField(o, "jti")
  /\ HasField(o, "exp")
  /\ options.expirationTime = "" => Get(o, "exp").v = "now+2h"
  /\ HasField(o, "aud") <=> options.audience # ""
  /\ HasField(o, "iss") <=> options.issuer # ""

\* the compression step of encryptToken(cart, options) builds a marker
BuildsMarker(options) == processedPayload(cart, options).zip # ""

\* C13: the result of decryptToken on a token produced by encryptToken
\* carries the injected standard claims merged with the original payload:
\* iat, jti and exp always (exp two hours after issue by default), aud and
\* iss exactly when the options supplied them; and this is so both when the
\* payload was compressed into a marker, which then is a token too, and
\* when it was not.
ClaimsInjected ==
  /\ (/\ res.op = "decryptToken"
      /\ HoldsToken
      /\ res.encKey = orig.encKey
      /\ IsEncryptionKey(keys, res.encKey)) =>
       /\ res.t = "ok"
       /\ HasClaims(res.value, orig.options)
       /\ Contains(res.value, cart)
  /\ (/\ res.op = "encryptToken"
      /\ IsEncryptionKey(keys, res.encKey)
      /\ BuildsMarker(res.options)) =>
       res.t = "ok"

-----------------------------------------------------------------------------
(* Key lookups: every operation that needs one half of a key, on stores    *)
(* with whole pairs, public-only and private-only records                  *)

KeyInit ==
  /\ OthersInit
  /\ keys = [k \in KeyIds |-> NoRecord]
  /\ cart \in Payloads
  /\ signed = NoSigned
  /\ orig = NoOrig
  /\ res = NoRes

KeyNext ==
  \/ \E alg \in SigningAlgs : GenerateKeyPair(alg)
  \/ \E alg \in EncryptionAlgs : GenerateKeyPairForEncryption(alg)
  \/ \E k \in {i \in KeyIds : keys[i].publicKey # NoKey} :
       SetPublicKey(k, exportJWK(keys[k].publicKey))
  \/ \E k \in {i \in KeyIds : keys[i].privateKey # NoKey} :
       SetPrivateKey(k, exportJWK(keys[k].privateKey))
  \/ \E key \in KeyIds : Sign(key)
  \/ \E keyId \in KeyIds : EncryptToken(keyId, Options("false"))
  \/ \E keyId \in KeyIds : DecryptToken(keyId)
  \/ \E key \in KeyIds : GetPublicKey(key)

KeySpec == KeyInit /\ [][KeyNext]_vars

\* the operations that need a key, the half each needs, and the message
\* each throws for want of it; the identifier in the message is the one the
\* call was given, res.key or res.encKey
NeededHalf(r, store) ==
  CASE r.op = "sign" -> KeysGet(store, r.key).privateKey
    [] r.op = "encryptToken" -> KeysGet(store, r.encKey).publicKey
    [] r.op = "decryptToken" -> KeysGet(store, r.encKey).privateKey
    [] r.op = "getPublicKey" -> KeysGet(store, r.key).publicKey

NotFoundMessage(op) ==
  CASE op = "sign" -> "Key not found"
    [] op = "encryptToken" -> "Encryption key not found"
    [] op = "decryptToken" -> "Decryption key not found"
    [] op = "getPublicKey" -> "Key not found"

NeedsKey(r) ==
  r.op \in {"sign", "encryptToken", "decryptToken", "getPublicKey"}

\* the call behind r threw its key-not-found error
KeyNotFound(r) ==
  NeedsKey(r) /\ r.t = "throw" /\ r.err = NotFoundMessage(r.op)

\* key-not-found is thrown exactly when the needed half is missing, and
\* nothing comes back with it
KeyNotFoundOnMissingHalf ==
  NeedsKey(res) =>
    /\ KeyNotFound(res) <=> NeededHalf(res, keys) = NoKey
    /\ KeyNotFound(res) => res.value = <<>>

\* C14: sign throws 'Key not found' exactly when the store has no record
\* under the id or the record has no private key, encryptToken throws
\* 'Encryption key <id> not found' exactly when there is no public key,
\* decryptToken throws 'Decryption key <id> not found' exactly when there is
\* no private key, getPublicKey throws 'Key not found' exactly when there
\* is no public key; such a failure produces nothing and leaves the key
\* store, and what the caller holds, unchanged.
KeyNotFoundExactly ==
  /\ []KeyNotFoundOnMissingHalf
  /\ [][KeyNotFound(res') =>
         keys' = keys /\ signed' = signed /\ token' = token]_vars

\* encryptToken was given the identifier of a record that holds a private
\* key only, and threw for the missing public half
KeyNotFoundExactlyWitness ==
  /\ res.op = "encryptToken"
  /\ keys[res.encKey].present
  /\ keys[res.encKey].privateKey # NoKey
  /\ keys[res.encKey].publicKey = NoKey
  /\ KeyNotFound(res)

-----------------------------------------------------------------------------
(* Engines over Map objects.  maps is the heap of Map objects, a key store *)
(* argument is the index of one of them, engines lists the JsonSignature   *)
(* and TokenCrypto objects constructed so far.                             *)

\* the keyStore argument that was not passed
NoStore == 0

\* an engine: its class, the Map its _keys field refers to, the keyStore
\* the caller passed to the constructor expression that made it, and the
\* CloudlessCrypto it is the signer or encryptor of (0: of none)
Engine(class, ref, given, of) ==
  [class |-> class, _keys |-> ref, given |-> given, of |-> of]

\* new JsonSignature(keyStore) and new TokenCrypto(keyStore): this._keys is
\* keyStore, or a new Map when none was passed
Construct(class, heap, keyStore, given, of) ==
  IF keyStore # NoStore
  THEN [heap |-> heap, engine |-> Engine(class, keyStore, given, of)]
  ELSE [heap |-> Append(heap, EmptyMap),
        engine |-> Engine(class, Len(heap) + 1, given, of)]

\* a composed object whose encryptor is constructed without the store
CloudlessCryptoWithTwoStores(heap, keyStore, of) ==
  LET store == IF keyStore # NoStore THEN keyStore ELSE Len(heap) + 1
      heap1 == IF keyStore # NoStore THEN heap ELSE Append(heap, EmptyMap)
      signer == Construct("JsonSignature", heap1, store, keyStore, of)
      encryptor == Construct("TokenCrypto", signer.heap, NoStore, keyStore, of)
  IN [heap |-> encryptor.heap,
      engines |-> << signer.engine, encryptor.engine >>]

\* new CloudlessCrypto(keyStore): store = keyStore || new Map(), signer and
\* encryptor both constructed with store
CloudlessCrypto(heap, keyStore, of) ==
  LET store == IF keyStore # NoStore THEN keyStore ELSE Len(heap) + 1
      heap1 == IF keyStore # NoStore THEN heap ELSE Append(heap, EmptyMap)
      signer == Construct("JsonSignature", heap1, store, keyStore, of)
      encryptor == Construct("TokenCrypto", signer.heap, store, keyStore, of)
  IN [heap |-> encryptor.heap,
      engines |-> << signer.engine, encryptor.engine >>]

\* this._keys of engine i
KeysOf(i) == maps[engines[i]._keys]

\* TokenCrypto.hasKey(keyId)
hasKey(store, keyId) == KeysGet(store, keyId).present

\* what a call through an engine leaves for the caller
EngineRes(op, engine, key) ==
  [op |-> op, engine |-> engine, key |-> key, encKey |-> "",
   options |-> Options("undefined"), t |-> "ok", value |-> <<>>, err |-> "",
   calls |-> <<>>]

\* the identifiers in use in some Map
InUse ==
  [k \in KeyIds |->
     [NoRecord EXCEPT !.present = \E r \in 1..Len(maps) : maps[r][k].present]]

\* what getPublicKey gives through some engine
PublicKeys ==
  {exportJWK(k) :
     k \in {maps[r][id].publicKey : r \in 1..Len(maps), id \in KeyIds}
            \ {NoKey}}

\* engine i writes value under key
EngineSet(op, i, key, value) ==
  /\ maps' = [maps EXCEPT ![engines[i]._keys] = KeysSet(@, key, value)]
  /\ res' = EngineRes(op, i, key)
  /\ UNCHANGED <<keys, cart, signed, token, orig, runtime, peer, engines,
                 wasm, inflight>>

\* the caller's new Map()
NewMap ==
  /\ Len(maps) < MaxMaps
  /\ maps' = Append(maps, EmptyMap)
  /\ res' = NoRes
  /\ UNCHANGED <<keys, cart, signed, token, orig, runtime, peer, engines,
                 wasm, inflight>>

\* new JsonSignature(keyStore) or new TokenCrypto(keyStore) by the caller
NewEngine(class, keyStore) ==
  LET made == Construct(class, maps, keyStore, keyStore, 0)
  IN /\ Len(engines) < MaxEngines
     /\ maps' = made.heap
     /\ engines' = Append(engines, made.engine)
     /\ res' = NoRes
     /\ UNCHANGED <<keys, cart, signed, token, orig, runtime, peer, wasm,
                  inflight>>

\* new CloudlessCrypto(keyStore) by the caller
NewCloudlessCrypto(keyStore) ==
  LET made == CloudlessCrypto(maps, keyStore, Len(engines) + 1)
  IN /\ Len(engines) + 2 <= MaxEngines
     /\ maps' = made.heap
     /\ engines' = engines \o made.engines
     /\ res' = NoRes
     /\ UNCHANGED <<keys, cart, signed, token, orig, runtime, peer, wasm,
                  inflight>>

\* generateKeyPair (a signer) or generateKeyPairForEncryption (an
\* encryptor) of engine i, also reached through generateSigningKeyPair and
\* generateEncryptionKeyPair of the composed object
EngineGenerate(i) ==
  /\ ~StoreFull(InUse)
  /\ LET key == uuidv4(InUse)
         signer == engines[i].class = "JsonSignature"
     IN EngineSet(IF signer THEN "generateKeyPair"
                  ELSE "generateKeyPairForEncryption",
                  i, key,
                  KeyPair(PublicHalf(key), PrivateHalf(key),
                          IF signer THEN "PS256" ELSE "RSA-OAEP-256"))

\* importKeyPair (a signer) or importKeyPairForEncryption (an encryptor) of
\* engine i with what exportKeyPair(from) of engine j returned
EngineImport(i, key, j, from) ==
  LET pair == exportKeyPair(KeysOf(j), from)
  IN /\ pair.t = "ok"
     /\ EngineSet(IF engines[i].class = "JsonSignature" THEN "importKeyPair"
                  ELSE "importKeyPairForEncryption",
                  i, key,
                  KeyPair(importJWK(pair.v.publicKey, pair.v.alg),
                          importJWK(pair.v.privateKey, pair.v.alg),
                          pair.v.alg))

\* setPublicKey(key, value) of signer i
EngineSetPublicKey(i, key, value) ==
  /\ engines[i].class = "JsonSignature"
  /\ EngineSet("setPublicKey", i, key,
               KeyPair(importJWK(value, ""), NoKey, ""))

ShareInit ==
  /\ OthersInit
  /\ keys = [k \in KeyIds |-> NoRecord]
  /\ cart = << Fld("message", Str("hello")) >>
  /\ signed = NoSigned
  /\ orig = NoOrig
  /\ res = NoRes

ShareNext ==
  \/ NewMap
  \/ \E class \in {"JsonSignature", "TokenCrypto"},
        keyStore \in 0..Len(maps) : NewEngine(class, keyStore)
  \/ \E keyStore \in 0..Len(maps) : NewCloudlessCrypto(keyStore)
  \/ \E i \in 1..Len(engines) : EngineGenerate(i)
  \/ \E i, j \in 1..Len(engines), key \in KeyIds :
       EngineImport(i, key, j, key)
  \/ \E i \in 1..Len(engines), key \in KeyIds, value \in PublicKeys :
       EngineSetPublicKey(i, key, value)

ShareSpec == ShareInit /\ [][ShareNext]_vars

\* engines i and j are the signer and the encryptor of one CloudlessCrypto,
\* or were constructed with the same Map of the caller
Shares(i, j) ==
  \/ engines[i].of # 0 /\ engines[i].of = engines[j].of
  \/ engines[i].given # NoStore /\ engines[i].given = engines[j].given

\* hasKey, sign and encryptToken give the same through engines i and j
\* under every identifier
SeeTheSame(i, j) ==
  \A k \in KeyIds :
    /\ hasKey(KeysOf(i), k) = hasKey(KeysOf(j), k)
    /\ sign(KeysOf(i), k, cart) = sign(KeysOf(j), k, cart)
    /\ encryptToken(KeysOf(i), k, cart, Options("false"))
         = encryptToken(KeysOf(j), k, cart, Options("false"))

\* the operations that write a record
WriteOps ==
  {"generateKeyPair", "generateKeyPairForEncryption", "importKeyPair",
   "importKeyPairForEncryption", "setPublicKey"}

-----------------------------------------------------------------------------
(* Two objects constructed apart: keys is the store of the first, peer the *)
(* store of the second.  Keys go from the first to the second as JWKs.     *)

\* the identifier the second object keeps the public key of key under when
\* it does not keep it under key
Alias(key) == "other-" \o key

PeerIds == KeyIds \cup {Alias(k) : k \in KeyIds}

\* second.importKeyPair / importKeyPairForEncryption(exported.kid,
\* exported.publicKey, exported.privateKey, exported.alg) with
\* exported = first.exportKeyPair(key)
PeerImportKeyPair(key) ==
  LET exported == exportKeyPair(keys, key)
      pair == KeyPair(importJWK(exported.v.publicKey, exported.v.alg),
                      importJWK(exported.v.privateKey, exported.v.alg),
                      exported.v.alg)
  IN /\ IF exported.t = "ok"
        THEN /\ peer' = KeysSet(peer, exported.v.kid, pair)
             /\ res' = Res("importKeyPair", key, "", Returned(<<>>), <<>>)
        ELSE /\ peer' = peer
             /\ res' = Res("exportKeyPair", key, "",
                           [exported EXCEPT !.v = <<>>], <<>>)
     /\ UNCHANGED <<keys, cart, signed, token, orig, runtime, maps, engines,
                 wasm, inflight>>

\* second.setPublicKey(Alias(key), first.getPublicKey(key))
PeerSetPublicKey(key) ==
  LET pubKey == getPublicKey(keys, key)
  IN /\ IF pubKey.t = "ok"
        THEN /\ peer' = KeysSet(peer, Alias(key),
                                KeyPair(importJWK(pubKey.v, ""), NoKey, ""))
             /\ res' = Res("setPublicKey", Alias(key), "", Returned(<<>>),
                           <<>>)
        ELSE /\ peer' = peer
             /\ res' = Res("getPublicKey", key, "",
                           [pubKey EXCEPT !.v = <<>>], <<>>)
     /\ UNCHANGED <<keys, cart, signed, token, orig, runtime, maps, engines,
                 wasm, inflight>>

\* second.verify(signed, key)
PeerVerify(key) ==
  /\ res' = Res("peer.verify", key, "", verify(peer, signed, key), <<>>)
  /\ UNCHANGED <<keys, cart, signed, orig, others>>

\* second.decryptToken(keyId, token)
PeerDecryptToken(keyId) ==
  /\ res' = Res("peer.decryptToken", "", keyId,
                decryptToken(peer, keyId, token), <<>>)
  /\ UNCHANGED <<keys, cart, signed, orig, others>>

TransferInit ==
  /\ keys = [k \in KeyIds |-> NoRecord]
  /\ peer = [k \in PeerIds |-> NoRecord]
  /\ cart \in Payloads
  /\ signed = NoSigned
  /\ token = FakeToken
  /\ orig = NoOrig
  /\ res = NoRes
  /\ runtime = NodeRuntime
  /\ maps = <<>>
  /\ engines = <<>>
  /\ wasm = NoWasm
  /\ inflight = NoCalls

TransferNext ==
  \/ \E alg \in SigningAlgs : GenerateKeyPair(alg)
  \/ \E alg \in EncryptionAlgs : GenerateKeyPairForEncryption(alg)
  \/ \E key \in KeyIds : Sign(key)
  \/ \E keyId \in KeyIds, c \in {"undefined", "false"} :
       EncryptToken(keyId, Options(c))
  \/ \E key \in KeyIds : PeerImportKeyPair(key)
  \/ \E key \in KeyIds : PeerSetPublicKey(key)
  \/ \E key \in PeerIds \cup {UndefinedKey} : PeerVerify(key)
  \/ \E keyId \in PeerIds : PeerDecryptToken(keyId)

TransferSpec == TransferInit /\ [][TransferNext]_vars

\* the first object signed the cart with key and the caller holds the result
SignedWith(key) == signed # NoSigned /\ signed.protected.kid = key

\* the first object encrypted the cart to keyId and the caller holds the
\* token
EncryptedTo(keyId) == token # FakeToken /\ token.v.header.kid = keyId

\* C17: keys exported from one object with exportKeyPair and imported into
\* a second, independently constructed object under the same identifiers
\* let the second object decrypt the tokens and verify the signatures the
\* first produced; a public key taken over with getPublicKey and
\* setPublicKey under another identifier lets the second object verify
\* when that identifier is passed.
TransferredKeysWork ==
  /\ \A S \in KeyIds :
       (/\ res.op = "peer.verify"
        /\ SignedWith(S)
        /\ \/ res.key \in {S, UndefinedKey} /\ peer[S].present
           \/ res.key = Alias(S) /\ peer[Alias(S)].present) =>
         /\ ~IsError(res.value)
         /\ SameObject(res.value, cart)
  /\ \A E \in KeyIds :
       (/\ res.op = "peer.decryptToken"
        /\ EncryptedTo(E)
        /\ res.encKey = E
        /\ peer[E].present) =>
         /\ res.t = "ok"
         /\ Contains(res.value, cart)

\* the second object opened a token of the first with an imported pair,
\* while holding a signing key of the first under another identifier
TransferredKeysWorkWitness ==
  /\ res.op = "peer.decryptToken"
  /\ res.t = "ok"
  /\ EncryptedTo(res.encKey)
  /\ cart # <<>>
  /\ Contains(res.value, cart)
  /\ \E S \in KeyIds :
       /\ SignedWith(S)
       /\ peer[Alias(S)].present
       /\ SameObject(verify(peer, signed, Alias(S)).v, cart)

-----------------------------------------------------------------------------
(* Sign, then encrypt the signed object; decrypt, then verify.  In every   *)
(* runtime, with every compress option.                                    *)

\* CloudlessCrypto.signAndEncrypt(signingKey, encryptionKey, cart, options),
\* the caller keeping the token
SignAndEncrypt(signingKey, encryptionKey, options) ==
  LET r == signAndEncrypt(keys, signingKey, encryptionKey, cart, options)
  IN /\ res' = [Res("signAndEncrypt", signingKey, encryptionKey,
                    [r EXCEPT !.v = <<>>], <<>>) EXCEPT !.options = options]
     /\ IF r.t = "ok"
        THEN /\ token' = r.v
             /\ orig' = Orig("signAndEncrypt", signingKey, encryptionKey,
                             options, "none")
        ELSE UNCHANGED <<token, orig>>
     /\ UNCHANGED <<keys, cart, signed, runtime, peer, maps, engines,
                 wasm, inflight>>

\* CloudlessCrypto.decryptAndVerify(decryptionKey, verificationKey, token)
DecryptAndVerify(decryptionKey, verificationKey) ==
  /\ res' = Res("decryptAndVerify", verificationKey, decryptionKey,
                decryptAndVerify(keys, decryptionKey, verificationKey, token),
                <<>>)
  /\ UNCHANGED <<keys, cart, signed, orig, others>>

SealInit ==
  /\ keys = [k \in KeyIds |-> NoRecord]
  /\ peer = [k \in KeyIds |-> NoRecord]
  /\ cart \in Payloads
  /\ signed = NoSigned
  /\ token = FakeToken
  /\ orig = NoOrig
  /\ res = NoRes
  /\ runtime \in Runtimes
  /\ maps = <<>>
  /\ engines = <<>>
  /\ wasm = NoWasm
  /\ inflight = NoCalls

SealNext ==
  \/ \E alg \in SigningAlgs : GenerateKeyPair(alg)
  \/ \E alg \in EncryptionAlgs : GenerateKeyPairForEncryption(alg)
  \/ /\ orig.op = "none"
     /\ \E signingKey, encryptionKey \in KeyIds,
           c \in CompressOptions :
          SignAndEncrypt(signingKey, encryptionKey, Options(c))
  \/ \E decryptionKey, verificationKey \in KeyIds :
       DecryptAndVerify(decryptionKey, verificationKey)

SealSpec == SealInit /\ [][SealNext]_vars

\* the store has a key pair for signing under key
IsSigningKey(store, key) ==
  LET value == KeysGet(store, key)
  IN /\ value.publicKey # NoKey
     /\ value.privateKey # NoKey
     /\ value.alg \in SigningAlgs

\* C18: for every payload P, signing key S and encryption key E,
\* signAndEncrypt(S, E, P) produces a single compact string, and
\* decryptAndVerify(E, S, that string) returns an object containing every
\* field of P with the same value, with compression and without.
SignAndEncryptRoundTrip ==
  /\ (/\ res.op = "signAndEncrypt"
      /\ IsSigningKey(keys, res.key)
      /\ IsEncryptionKey(keys, res.encKey)) =>
       /\ res.t = "ok"
       /\ token.t = "jwe"
  /\ (/\ res.op = "decryptAndVerify"
      /\ orig.op = "signAndEncrypt"
      /\ res.key = orig.key
      /\ res.encKey = orig.encKey) =>
       /\ res.t = "ok"
       /\ ~IsError(res.value)
       /\ Contains(res.value, cart)

-----------------------------------------------------------------------------
(* compress and decompress on their own: on bytes of every kind, with      *)
(* every method and with the method left out, in every runtime             *)

\* byte sequences that are no JSON text: none at all, a few bytes without
\* repetition, many bytes that repeat
ByteTexts ==
  {[t |-> "bytes", v |-> k] : k \in {"empty", "incompressible", "repetitive"}}

\* the uncompressed inputs
RawInputs ==
  {Buffer(text) : text \in ByteTexts \cup {JsonStringify(p) : p \in Payloads}}

\* bytes no codec wrote: without and with the gzip magic bytes in front
\* (new Uint8Array([255, 254, 253, 252, 251]))
MalformedInputs ==
  {[codec |-> c, text |-> [t |-> "bytes", v |-> "incompressible"]] :
     c \in {"garbage", "torn-gzip"}}

\* what a gzip or brotli encoder wrote
EncodedInputs ==
  {[codec |-> c, text |-> x.text] : c \in {"gzip", "brotli"}, x \in RawInputs}

Methods == {"gzip", "brotli", "none"}

\* what a call of compress or decompress leaves for the caller
CodecRes(op, input, method, out) ==
  [op |-> op, input |-> input, method |-> method, key |-> "", encKey |-> "",
   options |-> Options("undefined"), t |-> "ok", value |-> out, err |-> "",
   calls |-> <<>>]

\* decompress(data, method), method "undefined" when left out
Decompress(data, method) ==
  /\ res' = CodecRes("decompress", data, method, decompress(data, method))
  /\ UNCHANGED <<keys, cart, signed, orig, others>>

\* compress(data, { method }) and decompress of what it returned, with
\* method or with the method left out
CompressDecompress(data, method, detect) ==
  LET compressed == compress(data, method)
      back == IF detect THEN "undefined" ELSE method
  IN /\ res' = [CodecRes("compress.decompress", data, method,
                         decompress(compressed, back))
                  EXCEPT !.calls = << compressed, back >>]
     /\ UNCHANGED <<keys, cart, signed, orig, others>>

CodecInit ==
  /\ keys = [k \in KeyIds |-> NoRecord]
  /\ cart = <<>>
  /\ signed = NoSigned
  /\ token = FakeToken
  /\ orig = NoOrig
  /\ res = NoRes
  /\ runtime \in Runtimes
  /\ peer = [k \in KeyIds |-> NoRecord]
  /\ maps = <<>>
  /\ engines = <<>>
  /\ wasm = NoWasm
  /\ inflight = NoCalls

CodecNext ==
  \/ \E data \in MalformedInputs \cup EncodedInputs,
        method \in Methods \cup {"undefined"} : Decompress(data, method)
  \/ \E data \in RawInputs, method \in Methods, detect \in BOOLEAN :
       CompressDecompress(data, method, detect)
  \/ EnableBrotliWasm
  \/ DisableBrotliWasm

CodecSpec == CodecInit /\ [][CodecNext]_vars

\* a gzip or brotli stream
WellFormed(data) == data.codec \in {"gzip", "brotli"}

\* C21: decompress(bytes, method?) on input that is malformed for the
\* selected or auto-detected codec surfaces a decompression failure to the
\* caller; it never returns bytes that are not the true decompression of
\* the input.
MalformedInputSurfaces ==
  (/\ res.op = "decompress"
   /\ DetectedMethod(res.input, res.method) # "none"
   /\ res.input.codec # DetectedMethod(res.input, res.method)) =>
     \/ res.t = "throw"
     \/ WellFormed(res.input) /\ res.value = Buffer(res.input.text)

\* C22: for every byte sequence X (empty, small incompressible, large
\* repetitive) and every method m of gzip, brotli and none,
\* decompress(compress(X, m), m) returns X; with m = none both functions
\* are the identity; and decompress with the method left out recovers X
\* from gzip output (detected by the magic bytes 1f 8b) and from brotli
\* output (the fallback guess).
CompressionRoundTrip ==
  (/\ res.op = "compress.decompress"
   /\ res.calls[2] = "undefined" => res.method \in {"gzip", "brotli"}) =>
     /\ res.value = res.input
     /\ res.method = "none" => res.calls[1] = res.input

\* Node.js: repetitive bytes went through gzip and came back with the
\* method left out
CompressionRoundTripWitness ==
  /\ res.op = "compress.decompress"
  /\ runtime = NodeRuntime
  /\ res.method = "gzip"
  /\ res.calls[2] = "undefined"
  /\ res.calls[1].codec = "gzip"
  /\ res.input.text.t = "bytes"
  /\ res.input.text.v = "repetitive"
  /\ res.value = res.input

-----------------------------------------------------------------------------
(* The brotli WASM module of the browser: import('brotli-wasm') is awaited, *)
(* so a call that goes for the module is two steps, and other calls run    *)
(* between them                                                            *)

\* what a call of the compression module leaves for the caller; enabled is
\* wasmEnabled as the call found it
WasmRes(op, input, method, enabled, t, out) ==
  [op |-> op, input |-> input, method |-> method, wasmEnabled |-> enabled,
   t |-> t, value |-> out]

\* the bytes the calls are made with
WasmInputs == {Buffer(text) : text \in ByteTexts}

WasmEncoded ==
  {[codec |-> c, text |-> x.text] : c \in {"gzip", "brotli"},
                                     x \in WasmInputs}

\* initBrowserBrotliWasm(): !browserBrotliWasm && isBrowser && wasmEnabled
ImportsModule(rt, w) ==
  ~w.browserBrotliWasm /\ rt.kind = "browser" /\ rt.wasmEnabled

\* await import('brotli-wasm') on behalf of call
StartImport(rt, w, call) ==
  [w EXCEPT !.loading = @ \cup {call},
            !.imports = @ \cup {[by |-> call.op, wasmEnabled |-> rt.wasmEnabled,
                                 called |-> w.called]}]

WasmCall(op, data, method) == [op |-> op, data |-> data, method |-> method]

Awaits(op) == \E call \in wasm.loading : call.op = op

\* enableBrotliWasm() up to its await
WasmEnable ==
  LET call == WasmCall("enableBrotliWasm", Buffer(Str("")), "")
      rt == enableBrotliWasm(runtime)
      w == [wasm EXCEPT !.called = TRUE]
  IN /\ ~Awaits("enableBrotliWasm")
     /\ IF runtime.kind # "browser"
        THEN /\ res' = WasmRes(call.op, call.data, "", runtime.wasmEnabled,
                               "ok", FALSE)
             /\ UNCHANGED <<runtime, wasm>>
        ELSE /\ runtime' = rt
             /\ IF ImportsModule(rt, w)
                THEN /\ wasm' = StartImport(rt, w, call)
                     /\ res' = WasmRes(call.op, call.data, "",
                                       runtime.wasmEnabled, "pending", FALSE)
                ELSE /\ wasm' = w
                     /\ res' = WasmRes(call.op, call.data, "",
                                       runtime.wasmEnabled, "ok",
                                       w.browserBrotliWasm)
     /\ UNCHANGED <<keys, cart, signed, token, orig, peer, maps, engines,
                    inflight>>

\* disableBrotliWasm()
WasmDisable ==
  /\ runtime' = disableBrotliWasm(runtime)
  /\ wasm' = [wasm EXCEPT !.browserBrotliWasm = FALSE]
  /\ res' = WasmRes("disableBrotliWasm", Buffer(Str("")), "",
                    runtime.wasmEnabled, "ok", FALSE)
  /\ UNCHANGED <<keys, cart, signed, token, orig, peer, maps, engines,
                 inflight>>

\* compress(data, { method }) up to its first await on the module
WasmCompress(data, method) ==
  LET call == WasmCall("compress", data, method)
  IN /\ ~Awaits("compress")
     /\ IF runtime.kind = "browser" /\ method = "brotli"
           /\ runtime.wasmEnabled
        THEN IF ImportsModule(runtime, wasm)
             THEN /\ wasm' = StartImport(runtime, wasm, call)
                  /\ res' = WasmRes(call.op, data, method, TRUE, "pending",
                                    data)
             ELSE /\ wasm' = wasm
                  /\ res' = WasmRes(call.op, data, method, TRUE, "ok",
                                    Encode("brotli", data))
        ELSE /\ wasm' = wasm
             /\ res' = WasmRes(call.op, data, method, runtime.wasmEnabled,
                               "ok", compress(data, method))
     /\ UNCHANGED <<keys, cart, signed, token, orig, runtime, peer, maps,
                    engines, inflight>>

\* decompress(data, method) up to its first await on the module
WasmDecompress(data, method) ==
  LET call == WasmCall("decompress", data, method)
  IN /\ ~Awaits("decompress")
     /\ IF runtime.kind = "browser"
           /\ DetectedMethod(data, method) = "brotli"
           /\ runtime.wasmEnabled
        THEN IF ImportsModule(runtime, wasm)
             THEN /\ wasm' = StartImport(runtime, wasm, call)
                  /\ res' = WasmRes(call.op, data, method, TRUE, "pending",
                                    data)
             ELSE /\ wasm' = wasm
                  /\ res' = WasmRes(call.op, data, method, TRUE, "ok",
                                    decompress(data, method))
        ELSE /\ wasm' = wasm
             /\ res' = WasmRes(call.op, data, method, runtime.wasmEnabled,
                               "ok", decompress(data, method))
     /\ UNCHANGED <<keys, cart, signed, token, orig, runtime, peer, maps,
                    engines, inflight>>

\* getAvailableCompressionMethods()
getAvailableCompressionMethods(rt, w) ==
  IF rt.kind = "node"
  THEN [brotli |-> rt.brotli = "ok", gzip |-> rt.gzip = "ok",
        environment |-> "node"]
  ELSE IF rt.kind = "browser"
  THEN [brotli |-> rt.wasmEnabled /\ w.browserBrotliWasm,
        gzip |-> rt.gzip = "ok", environment |-> "browser"]
  ELSE [brotli |-> FALSE, gzip |-> FALSE, environment |-> "unknown"]

GetAvailableCompressionMethods ==
  /\ res' = WasmRes("getAvailableCompressionMethods", Buffer(Str("")), "",
                    runtime.wasmEnabled, "ok",
                    getAvailableCompressionMethods(runtime, wasm))
  /\ UNCHANGED <<keys, cart, signed, orig, others>>

\* import('brotli-wasm') settles and the call that awaited it runs to its
\* end: with the module, or with null where the import was rejected
ImportSettles(call) ==
  LET loaded == runtime.brotli = "ok"
      gunzipped == IF Decodes("gzip", call.data) THEN Buffer(call.data.text)
                   ELSE call.data
      out == CASE call.op = "enableBrotliWasm" -> loaded
               [] call.op = "compress" ->
                    IF loaded THEN [codec |-> "brotli", text |-> call.data.text]
                    ELSE Encode("gzip", call.data)
               [] call.op = "decompress" ->
                    IF loaded /\ call.data.codec = "brotli"
                    THEN Buffer(call.data.text)
                    ELSE gunzipped
  IN /\ call \in wasm.loading
     /\ wasm' = [wasm EXCEPT !.loading = @ \ {call},
                             !.browserBrotliWasm = loaded \/ @]
     /\ res' = WasmRes(call.op, call.data, call.method, TRUE, "ok", out)
     /\ UNCHANGED <<keys, cart, signed, token, orig, runtime, peer, maps,
                    engines, inflight>>

WasmInit ==
  /\ keys = [k \in KeyIds |-> NoRecord]
  /\ cart = <<>>
  /\ signed = NoSigned
  /\ token = FakeToken
  /\ orig = NoOrig
  /\ res = NoRes
  /\ runtime \in Runtimes
  /\ peer = [k \in KeyIds |-> NoRecord]
  /\ maps = <<>>
  /\ engines = <<>>
  /\ wasm = NoWasm
  /\ inflight = NoCalls

WasmNext ==
  \/ WasmEnable
  \/ WasmDisable
  \/ \E data \in WasmInputs, method \in Methods : WasmCompress(data, method)
  \/ \E data \in WasmEncoded, method \in Methods \cup {"undefined"} :
       WasmDecompress(data, method)
  \/ GetAvailableCompressionMethods
  \/ \E call \in wasm.loading : ImportSettles(call)

WasmSpec == WasmInit /\ [][WasmNext]_vars

\* every import so far was started with the flag on and after a call of
\* enableBrotliWasm, and the module is in memory or on its way only in a
\* browser where enableBrotliWasm was called
ImportedOnOptIn ==
  /\ \A i \in wasm.imports : i.wasmEnabled /\ i.called
  /\ (wasm.browserBrotliWasm \/ wasm.loading # {}) =>
       wasm.called /\ runtime.kind = "browser"

\* a brotli request that found the flag off returned at once, with what
\* gzip made of the data
BrotliOffUsesGzip ==
  (/\ res.op = "compress"
   /\ runtime.kind = "browser"
   /\ res.method = "brotli"
   /\ ~res.wasmEnabled) =>
     /\ res.t = "ok"
     /\ res.value.codec # "brotli"
     /\ runtime.gzip = "ok" => res.value.codec = "gzip"

\* a step that starts an import
Imports == wasm'.imports # wasm.imports \/ ~(wasm'.loading \subseteq wasm.loading)

\* C23: in the browser the brotli WASM module is loaded only after
\* enableBrotliWasm() has been called: no compress, decompress or
\* capability query starts the import while wasmEnabled is off, and a
\* brotli compress request made while it is off uses gzip instead.
WasmLoadedOnlyOnOptIn ==
  /\ [](ImportedOnOptIn /\ BrotliOffUsesGzip)
  /\ [][(~runtime.wasmEnabled /\ Imports) =>
          res'.op = "enableBrotliWasm" /\ runtime'.wasmEnabled]_vars
  /\ [][res'.op = "getAvailableCompressionMethods" => wasm' = wasm]_vars

\* the flag went off while the import was under way, the module arrived
\* all the same, and a brotli request then got gzip and started nothing
WasmLoadedOnlyOnOptInWitness ==
  /\ runtime.kind = "browser"
  /\ ~runtime.wasmEnabled
  /\ wasm.browserBrotliWasm
  /\ wasm.loading = {}
  /\ res.op = "compress"
  /\ res.method = "brotli"
  /\ ~res.wasmEnabled
  /\ res.value.codec = "gzip"
  /\ Cardinality(wasm.imports) = 1

-----------------------------------------------------------------------------
(* Payloads that use a registered claim name of their own: each of the     *)
(* seven names verifyThenDecrypt deletes, alone or beside another field    *)

\* the values a payload gives such a field: a string, and for nbf a time
\* gone by and a time ahead as well
ReservedValues(name) ==
  {Str("1")}
    \cup (IF name = "nbf"
          THEN {[t |-> "num", v |-> "past"], [t |-> "num", v |-> "future"]}
          ELSE {})

\* the payloads with a field of name name
ReservedOver(name) ==
  UNION {{ << Fld(name, v) >>, << Fld("a", Str("1")), Fld(name, v) >> } :
           v \in ReservedValues(name)}

ReservedPayloads ==
  UNION {ReservedOver(StrippedClaims[i]) : i \in DOMAIN StrippedClaims}

StripInit ==
  /\ OthersInit
  /\ keys = [k \in KeyIds |-> NoRecord]
  /\ cart \in ReservedPayloads
  /\ signed = NoSigned
  /\ orig = NoOrig
  /\ res = NoRes

StripNext ==
  \/ \E alg \in SigningAlgs : GenerateKeyPair(alg)
  \/ \E alg \in EncryptionAlgs : GenerateKeyPairForEncryption(alg)
  \/ \E e \in KeyArgs, s \in KeyArgs, o \in ComposeOptions :
       EncryptThenSign(e, s, o)
  \/ \E s \in KeyArgs, e \in KeyArgs : VerifyThenDecrypt(s, e)

StripSpec == StripInit /\ [][StripNext]_vars

\* the cart has a field under one of the names verifyThenDecrypt deletes
UsesStrippedName ==
  \E i \in DOMAIN StrippedClaims : HasField(cart, StrippedClaims[i])

\* the envelope of the cart was opened with the keys it was made with
OpenedWithItsKeys ==
  HoldsEnvelope /\ Opened /\ res.key = orig.key /\ res.encKey = orig.encKey

SealRejected ==
  /\ res.op = "encryptThenSign"
  /\ res.t = "throw"
  /\ IsEncryptionKey(keys, res.encKey)
  /\ IsSigningKey(keys, res.key)

-----------------------------------------------------------------------------
(* Payloads with a field named error of their own, signed and verified *)

ErrorPayloads ==
  { << Fld("error", Str("1")) >>,
    << Fld("error", Str("1")), Fld("a", Str("1")) >>,
    << Fld("a", Str("1")) >> }

TagInit ==
  /\ OthersInit
  /\ keys = [k \in KeyIds |-> NoRecord]
  /\ cart \in ErrorPayloads
  /\ signed = NoSigned
  /\ orig = NoOrig
  /\ res = NoRes

TagSpec == TagInit /\ [][SignNext]_vars

\* C25: what JsonSignature.verify returns has a top-level error field if
\* and only if verification failed, for every signed payload, those with a
\* field named error of their own included: testing for the field tells
\* success from failure.
ErrorFieldIffFailed ==
  res.op = "verify" =>
    (IsError(res.value) <=> VerifyFailure(keys, signed, res.key) # "none")

-----------------------------------------------------------------------------
(* decryptAndVerify on tokens of every make: sealed by signAndEncrypt,     *)
(* sealed after the signature was replaced, sealed around a payload that   *)
(* is no SignedObject, and no token at all; with keys that are missing,    *)
(* of the other kind, or replaced since                                    *)

\* an identifier the store has no record under
UnknownKey == "unknown-key"

\* TokenCrypto.encryptToken(encryptionKey, signed, { compress: false }) on
\* the SignedObject the caller holds
SealSigned(encryptionKey) ==
  LET r == encryptToken(keys, encryptionKey, SignedAsPayload(signed),
                        Options("false"))
  IN /\ orig.op = "sign"
     /\ res' = Res("encryptToken", "", encryptionKey, [r EXCEPT !.v = <<>>],
                   <<>>)
     /\ IF r.t = "ok" THEN token' = r.v ELSE UNCHANGED token
     /\ UNCHANGED <<keys, cart, signed, orig, runtime, peer, maps, engines,
                    wasm, inflight>>

OpenNext ==
  \/ \E alg \in SigningAlgs : GenerateKeyPair(alg)
  \/ \E alg \in EncryptionAlgs : GenerateKeyPairForEncryption(alg)
  \/ /\ orig.op = "none"
     /\ \E signingKey, encryptionKey \in KeyIds, o \in ComposeOptions :
          SignAndEncrypt(signingKey, encryptionKey, o)
  \/ /\ orig.op = "none"
     /\ \E key \in KeyIds : Sign(key)
  \/ /\ orig.op = "sign"
     /\ TamperSignature
  \/ \E encryptionKey \in KeyIds : SealSigned(encryptionKey)
  \/ /\ orig.op = "none"
     /\ \E keyId \in KeyIds : EncryptToken(keyId, Options("false"))
  \/ \E k, other \in {i \in KeyIds : keys[i].publicKey # NoKey} :
       SetPublicKey(k, exportJWK(keys[other].publicKey))
  \/ \E decryptionKey \in KeyIds \cup {UnknownKey},
        verificationKey \in KeyIds \cup {"", UnknownKey} :
       DecryptAndVerify(decryptionKey, verificationKey)

\* the payloads of at most one field are enough here: decryptAndVerify
\* reads nothing of the payload
OpenInit ==
  /\ OthersInit
  /\ keys = [k \in KeyIds |-> NoRecord]
  /\ cart \in {p \in Payloads : Len(p) <= 1}
  /\ signed = NoSigned
  /\ orig = NoOrig
  /\ res = NoRes

OpenSpec == OpenInit /\ [][OpenNext]_vars

\* decryptToken(d, tok) cannot succeed: no private key under d, tok is no
\* token, or tok was encrypted to another key
DecryptionStageFails(store, d, tok) ==
  \/ KeysGet(store, d).privateKey = NoKey
  \/ tok.t # "jwe"
  \/ tok.v.m # KeysGet(store, d).privateKey.m

\* the last call was decryptAndVerify(res.encKey, res.key, token)
Unsealed == res.op = "decryptAndVerify"

\* C26: decryptAndVerify rejects only for failures of the decryption stage
\* (missing private key, wrong key, malformed token); where decryption
\* succeeds and the inner signature does not verify under verificationKey
\* (wrong or unknown key, replaced signature) it resolves with an object
\* carrying an error, never with the signed payload.
RejectsOnlyOnDecryption ==
  Unsealed =>
    /\ res.t = "throw" <=> DecryptionStageFails(keys, res.encKey, token)
    /\ ~DecryptionStageFails(keys, res.encKey, token) =>
         LET sgn == PayloadAsSigned(token.v.claims)
         IN VerifyFailure(keys, sgn, res.key) # "none" =>
              /\ res.t = "ok"
              /\ IsError(res.value)
              /\ res.value # sgn.payload

\* a token sealed around a SignedObject whose signature was replaced, opened
\* with the key it was encrypted to: the call resolved with an error object
RejectsOnlyOnDecryptionWitness ==
  /\ Unsealed
  /\ orig.op = "sign"
  /\ orig.tamper = "signature"
  /\ token.t = "jwe"
  /\ PayloadAsSigned(token.v.claims) = signed
  /\ VerifyFailure(keys, signed, res.key) = "check"
  /\ keys[orig.key].publicKey = PublicHalf(orig.key)
  /\ ~DecryptionStageFails(keys, res.encKey, token)
  /\ res.key = orig.key
  /\ res.t = "ok"
  /\ IsError(res.value)

-----------------------------------------------------------------------------
(* setPublicKey and setPrivateKey on records of every make: none, a key    *)
(* pair for signing or for encryption, another pair's material imported    *)
(* under the identifier, one half only                                     *)

\* the identifiers that hold both halves
FullPairs == {i \in KeyIds : keys[i].publicKey # NoKey /\ keys[i].privateKey # NoKey}

ReplaceNext ==
  \/ \E alg \in SigningAlgs : GenerateKeyPair(alg)
  \/ \E alg \in EncryptionAlgs : GenerateKeyPairForEncryption(alg)
  \/ \E k \in KeyIds, other \in FullPairs,
        alg \in SigningAlgs \cup EncryptionAlgs :
       ImportKeyPair(k, exportJWK(keys[other].publicKey),
                     exportJWK(keys[other].privateKey), alg)
  \/ \E k \in KeyIds, other \in {i \in KeyIds : keys[i].publicKey # NoKey} :
       SetPublicKey(k, exportJWK(keys[other].publicKey))
  \/ \E k \in KeyIds, other \in {i \in KeyIds : keys[i].privateKey # NoKey} :
       SetPrivateKey(k, exportJWK(keys[other].privateKey))
  \/ /\ orig.op = "none"
     /\ \E key \in KeyIds : Sign(key)
  \/ \E key \in KeyIds : Verify(key)
  \/ /\ orig.op = "sign"
     /\ \E keyId \in KeyIds : EncryptToken(keyId, Options("false"))
  \/ \E keyId \in KeyIds : DecryptToken(keyId)

ReplaceSpec == OpenInit /\ [][ReplaceNext]_vars

\* the records under all identifiers but id are the same after the step, and
\* so is what the caller holds
OnlyRecord(id) ==
  /\ \A k \in KeyIds \ {id} : keys'[k] = keys[k]
  /\ cart' = cart /\ signed' = signed /\ token' = token

\* verify under id goes by the signature alone, whatever alg the header names
VerifyUnpinned(store, sgn, id) ==
  LET jws == [signature |-> sgn.signature, protected |-> sgn.protected,
              payload |-> stringify(sgn.payload)]
  IN IsError(verify(store, sgn, id).v)
       <=> FlattenedVerify(jws, store[id].publicKey, "") # ""

\* C27: setPublicKey(id, k) and setPrivateKey(id, k) replace the whole
\* record under id.  After setPublicKey the record has no private key and
\* no algorithm: sign and decryptToken under id fail with key-not-found and
\* verify under id pins no algorithm.  After setPrivateKey the record has no
\* public key and no algorithm: verify under id returns an error,
\* encryptToken under id fails with key-not-found.  The records under all
\* other ids are unchanged.
SetReplacesRecord ==
  /\ [][res'.op = "setPublicKey" =>
         LET id == res'.key
         IN /\ keys'[id].publicKey # NoKey
            /\ keys'[id].privateKey = NoKey
            /\ keys'[id].alg = ""
            /\ OnlyRecord(id)
            /\ sign(keys', id, cart').err = "Key not found"
            /\ decryptToken(keys', id, token').err = "Decryption key not found"
            /\ VerifyUnpinned(keys', signed', id)]_vars
  /\ [][res'.op = "setPrivateKey" =>
         LET id == res'.key
         IN /\ keys'[id].privateKey # NoKey
            /\ keys'[id].publicKey = NoKey
            /\ keys'[id].alg = ""
            /\ OnlyRecord(id)
            /\ IsError(verify(keys', signed', id).v)
            /\ encryptToken(keys', id, cart', Options("false")).err
                 = "Encryption key not found"]_vars

\* the pair that signed was imported under a second identifier as an
\* encryption key pair, where verify was pinned to RSA-OAEP-256;
\* setPublicKey on that identifier has left the public half alone, the
\* private half is gone and verify of the SignedObject under it succeeds
SetReplacesRecordWitness ==
  /\ res.op = "setPublicKey"
  /\ orig.op = "sign"
  /\ orig.tamper = "none"
  /\ res.key # orig.key
  /\ keys[orig.key].alg \in SigningAlgs
  /\ keys[res.key] = KeyPair(PublicHalf(orig.key), NoKey, "")
  /\ ~IsError(verify(keys, signed, res.key).v)
  /\ sign(keys, res.key, cart).err = "Key not found"

-----------------------------------------------------------------------------
(* decryptToken on tokens of other producers: with every value of the zip  *)
(* header, around a payload or around a compression marker, and on tokens  *)
(* of payloads that have fields named _compressed and _compression         *)

\* the zip header values a token arrives with: none, the two encryptToken
\* knows, and one it does not
ZipValues == {"", "DEF", "BR", "LZ"}

MarkerPayloads ==
  { << Fld("a", Str("1")) >>,
    << Fld("_compressed", Str("x")) >>,
    << Fld("_compressed", Str("x")), Fld("_compression", Str("gzip")) >>,
    << Fld("_compressed", Str("")), Fld("_compression", Str("gzip")) >> }

\* a token for the key under keyId arrives: its producer compressed the
\* cart with method ("none": not at all), and named zip in the header
ReceiveToken(keyId, zip, method) ==
  LET payloadBuffer == Buffer(JsonStringify(cart))
      claims == IF method = "none" THEN cart
                ELSE Marker(compress(payloadBuffer, method),
                            ByteLength(payloadBuffer), method)
      header == [alg |-> "RSA-OAEP-256", enc |-> "A256GCM", kid |-> keyId,
                 zip |-> zip]
  IN /\ keys[keyId].publicKey # NoKey
     /\ token' = Jwe(header, keys[keyId].publicKey.m,
                     WithClaims(claims, Options("undefined")))
     /\ orig' = Orig("received", "", keyId, Options(method), "none")
     /\ res' = NoRes
     /\ UNCHANGED <<keys, cart, signed, runtime, peer, maps, engines,
                    wasm, inflight>>

ZipInit ==
  /\ OthersInit
  /\ keys = [k \in KeyIds |-> NoRecord]
  /\ cart \in MarkerPayloads
  /\ signed = NoSigned
  /\ orig = NoOrig
  /\ res = NoRes

ZipNext ==
  \/ \E alg \in EncryptionAlgs : GenerateKeyPairForEncryption(alg)
  \/ \E keyId \in KeyIds, c \in {"false", "undefined"} :
       EncryptToken(keyId, Options(c))
  \/ \E keyId \in KeyIds, zip \in ZipValues, method \in Methods :
       ReceiveToken(keyId, zip, method)
  \/ \E keyId \in KeyIds : DecryptToken(keyId)

ZipSpec == ZipInit /\ [][ZipNext]_vars

\* the last call was decryptToken(res.encKey, token) on a token
DecryptedToken == res.op = "decryptToken" /\ token.t = "jwe"

\* C28: decryptToken decides whether to decompress from the decrypted
\* claims alone, by _compressed and _compression being truthy: the zip
\* value of the protected header never changes the result.  Hence a payload
\* encrypted without compression is returned unchanged only if it does not
\* itself have both of those field names.
ZipHeaderNeverChangesResult ==
  /\ DecryptedToken =>
       LET r == decryptToken(keys, res.encKey,
                             [token EXCEPT !.v.header.zip = ""])
       IN res.t = r.t /\ res.value = r.v /\ res.err = r.err
  /\ (/\ DecryptedToken
      /\ orig.op = "encryptToken"
      /\ orig.options.compress = "false"
      /\ res.t = "ok"
      /\ Contains(res.value, cart)) =>
       ~(HasField(cart, "_compressed") /\ HasField(cart, "_compression"))

-----------------------------------------------------------------------------
(* Envelopes whose signer put other values under version and timestamp,    *)
(* or left them out, opened once and again                                 *)

\* the value left out
Absent == [t |-> "absent", v |-> ""]

Versions == {[t |-> "num", v |-> "1"], [t |-> "num", v |-> "2"], Absent}

Timestamps == {[t |-> "num", v |-> "now"], [t |-> "num", v |-> "last year"],
               Absent}

\* env with value under name, or without the field
Stamp(env, name, value) ==
  IF value = Absent THEN Delete(env, name) ELSE Put(env, name, value)

\* signObject(orig.key, the payload of the envelope with version and
\* timestamp of the signer's choosing), the caller keeping the result
Restamp(version, timestamp) ==
  LET r == sign(keys, orig.key,
                Stamp(Stamp(signed.payload, "version", version),
                      "timestamp", timestamp))
  IN /\ orig.op = "encryptThenSign"
     /\ orig.tamper \in {"none", "stamp"}
     /\ r.t = "ok"
     /\ signed' = r.v
     /\ orig' = [orig EXCEPT !.tamper = "stamp"]
     /\ res' = Res("signObject", orig.key, "", [r EXCEPT !.v = <<>>], <<>>)
     /\ UNCHANGED <<keys, cart, others>>

ReplayNext ==
  \/ \E alg \in SigningAlgs : GenerateKeyPair(alg)
  \/ \E alg \in EncryptionAlgs : GenerateKeyPairForEncryption(alg)
  \/ /\ orig.op = "none"
     /\ \E e \in KeyArgs, s \in KeyArgs, o \in ComposeOptions :
          EncryptThenSign(e, s, o)
  \/ \E version \in Versions, timestamp \in Timestamps :
       Restamp(version, timestamp)
  \/ TamperSignature
  \/ \E s \in KeyArgs, e \in KeyArgs : VerifyThenDecrypt(s, e)

ReplaySpec == Init /\ [][ReplayNext]_vars

\* the envelope the caller holds with version 1 and the timestamp of its
\* making, signed by the key that signed it
AsIssued ==
  sign(keys, orig.key,
       Stamp(Stamp(signed.payload, "version", [t |-> "num", v |-> "1"]),
             "timestamp", [t |-> "num", v |-> "now"])).v

\* what verifyThenDecrypt(signingKey, encryptionKey, sgn) gives the caller
Outcome(signingKey, encryptionKey, sgn) ==
  LET r == verifyThenDecrypt(keys, signingKey, encryptionKey, sgn)
  IN [t |-> r.t, value |-> r.v, err |-> r.err]

\* the envelope the caller holds is validly signed: its signature is the
\* signer's over the payload it has now
ValidlySigned ==
  orig.op = "encryptThenSign" /\ VerifiesUnder(keys, signed, orig.key)

\* an opening of a validly signed envelope gives what the opening of the
\* envelope as issued gives, and it gives it whatever was opened before:
\* the outcome is that of verifyThenDecrypt on the envelope and the keys
StampsIgnored ==
  (Opened /\ ValidlySigned) =>
     /\ [t |-> res.t, value |-> res.value, err |-> res.err]
          = Outcome(res.key, res.encKey, AsIssued)
     /\ (Decrypted(keys, signed, res.encKey).t = "ok"
           /\ HashMatches(keys, signed, res.encKey)
           /\ res.key = orig.key) => res.t = "ok"

\* C29: verifyThenDecrypt never inspects the version or the timestamp of
\* the envelope: for a validly signed envelope with a decryptable token and
\* a matching payloadHash it returns the same result whatever the two
\* fields hold, also when they are absent, and an opening leaves nothing
\* behind, so the same envelope is accepted any number of times.
VersionAndTimestampIgnored ==
  /\ []StampsIgnored
  /\ [][res'.op = "verifyThenDecrypt" =>
         /\ keys' = keys /\ signed' = signed /\ orig' = orig /\ cart' = cart
         /\ (res.op = "verifyThenDecrypt" /\ res.t = "ok"
               /\ res'.key = res.key /\ res'.encKey = res.encKey) =>
              res'.t = "ok" /\ res'.value = res.value]_vars

\* an envelope without version and with last year's timestamp was opened
\* with its keys, and the payload came back
VersionAndTimestampIgnoredWitness ==
  /\ Opened
  /\ ValidlySigned
  /\ orig.tamper = "stamp"
  /\ ~HasField(signed.payload, "version")
  /\ Get(signed.payload, "timestamp") = [t |-> "num", v |-> "last year"]
  /\ res.key = orig.key
  /\ res.encKey = orig.encKey
  /\ res.t = "ok"
  /\ Contains(res.value, cart)

-----------------------------------------------------------------------------
(* Calls on one key store that overlap.  Every method is an async          *)
(* function: it runs to its first await, other calls run while the promise *)
(* is pending, and it runs on from there when the promise settles.         *)
(* inflight lists the calls of the run in the order they were started.     *)

\* the key material jose.generateKeyPair makes for the n-th call of a run
CallNames == << "c1", "c2", "c3", "c4", "c5", "c6" >>

\* the key material of the JWKs importKeyPair is given
ImportedMaterial == "x"

Pending == [t |-> "pending", v |-> <<>>, err |-> ""]

\* a call that awaits: key is the identifier it was given ("" for none), m
\* the key material it makes or imports, rec the record it found under key
Call(op, key, alg, m, rec) ==
  [op |-> op, phase |-> "awaiting", key |-> key, alg |-> alg, m |-> m,
   rec |-> rec, out |-> Pending]

\* the same call with the promise settled
Done(call, key, out) ==
  [call EXCEPT !.phase = "done", !.key = key, !.out = out]

Generators == {"generateKeyPair", "generateKeyPairForEncryption"}

Importers == {"importKeyPair", "importKeyPairForEncryption"}

Awaiting(ops) ==
  {i \in DOMAIN inflight :
     inflight[i].phase = "awaiting" /\ inflight[i].op \in ops}

\* a record read again from the store when the promise has settled
RecordReadAgain(call, store) == KeysGet(store, call.key)

\* const value = this._keys.get(key), on the first line of sign and of
\* encryptToken: the record the rest of the call goes by
RecordUsed(call, store) == call.rec

\* generateKeyPair(alg) and generateKeyPairForEncryption(alg) up to
\* await jose.generateKeyPair(alg, ...)
CallGenerate(op, alg) ==
  /\ Len(inflight) < MaxCalls
  /\ inflight' = Append(inflight,
                        Call(op, "", alg, CallNames[Len(inflight) + 1],
                             NoRecord))
  /\ res' = Res(op, "", "", Pending, <<>>)
  /\ UNCHANGED <<keys, cart, signed, token, orig, runtime, peer, maps,
                 engines, wasm>>

\* the key pair is there: uuidv4() and this._keys.set(key, { publicKey,
\* privateKey, alg }) run without an await between them
SettleGenerate(i) ==
  LET call == inflight[i]
      key == uuidv4(keys)
  IN /\ i \in Awaiting(Generators)
     /\ ~StoreFull(keys)
     /\ keys' = KeysSet(keys, key,
                        KeyPair(PublicHalf(call.m), PrivateHalf(call.m),
                                call.alg))
     /\ inflight' = [inflight EXCEPT ![i] = Done(call, key, Returned(<<>>))]
     /\ res' = Res(call.op, key, "", Returned(<<>>), <<>>)
     /\ UNCHANGED <<cart, signed, token, orig, runtime, peer, maps, engines,
                    wasm>>

\* importKeyPair(key, pub, priv, alg) and importKeyPairForEncryption up to
\* await jose.importJWK(pub, alg)
CallImport(op, key, alg) ==
  /\ Len(inflight) < MaxCalls
  /\ inflight' = Append(inflight, Call(op, key, alg, ImportedMaterial,
                                       NoRecord))
  /\ res' = Res(op, key, "", Pending, <<>>)
  /\ UNCHANGED <<keys, cart, signed, token, orig, runtime, peer, maps,
                 engines, wasm>>

\* both halves are imported: this._keys.set(key, pair)
SettleImport(i) ==
  LET call == inflight[i]
      pair == KeyPair(importJWK(exportJWK(PublicHalf(call.m)), call.alg),
                      importJWK(exportJWK(PrivateHalf(call.m)), call.alg),
                      call.alg)
  IN /\ i \in Awaiting(Importers)
     /\ keys' = KeysSet(keys, call.key, pair)
     /\ inflight' = [inflight EXCEPT ![i] = Done(call, call.key,
                                                 Returned(<<>>))]
     /\ res' = Res(call.op, call.key, "", Returned(<<>>), <<>>)
     /\ UNCHANGED <<cart, signed, token, orig, runtime, peer, maps, engines,
                    wasm>>

\* sign(key, cart) and encryptToken(key, cart, { compress: false }) up to
\* their first await: the record is read, and without the half the call
\* needs it throws at once
CallUse(op, key) ==
  LET value == KeysGet(keys, key)
      call == Call(op, key, "", "", value)
      missing == IF op = "sign" THEN value.privateKey = NoKey
                 ELSE value.publicKey = NoKey
      out == IF op = "sign" THEN sign(keys, key, cart)
             ELSE encryptToken(keys, key, cart, Options("false"))
  IN /\ Len(inflight) < MaxCalls
     /\ inflight' = Append(inflight,
                           IF missing
                           THEN Done(call, key, [out EXCEPT !.v = <<>>])
                           ELSE call)
     /\ res' = Res(op, key, "", IF missing THEN [out EXCEPT !.v = <<>>]
                                ELSE Pending, <<>>)
     /\ UNCHANGED <<keys, cart, signed, token, orig, runtime, peer, maps,
                    engines, wasm>>

\* jose has signed or encrypted with the key it was handed
SettleUse(i) ==
  LET call == inflight[i]
      store == KeysSet(keys, call.key, RecordUsed(call, keys))
      out == IF call.op = "sign" THEN sign(store, call.key, cart)
             ELSE encryptToken(store, call.key, cart, Options("false"))
  IN /\ i \in Awaiting({"sign", "encryptToken"})
     /\ inflight' = [inflight EXCEPT ![i] = Done(call, call.key, out)]
     /\ res' = Res(call.op, call.key, "", [out EXCEPT !.v = <<>>], <<>>)
     /\ UNCHANGED <<keys, cart, signed, token, orig, runtime, peer, maps,
                    engines, wasm>>

OverlapNext ==
  \/ \E alg \in SigningAlgs : CallGenerate("generateKeyPair", alg)
  \/ \E alg \in EncryptionAlgs :
       CallGenerate("generateKeyPairForEncryption", alg)
  \/ \E i \in DOMAIN inflight : SettleGenerate(i)
  \/ \E key \in KeyIds, alg \in SigningAlgs :
       CallImport("importKeyPair", key, alg)
  \/ \E key \in KeyIds, alg \in EncryptionAlgs :
       CallImport("importKeyPairForEncryption", key, alg)
  \/ \E i \in DOMAIN inflight : SettleImport(i)
  \/ \E key \in KeyIds : CallUse("sign", key)
  \/ \E key \in KeyIds : CallUse("encryptToken", key)
  \/ \E i \in DOMAIN inflight : SettleUse(i)

OverlapSpec == OpenInit /\ [][OverlapNext]_vars

\* the calls that have written a record
Written ==
  {i \in DOMAIN inflight :
     inflight[i].phase = "done" /\ inflight[i].op \in Generators \cup Importers}

\* the record the call writes
RecordOf(call) ==
  KeyPair(PublicHalf(call.m), PrivateHalf(call.m), call.alg)

\* every record of the store is, in all its parts, the record one call wrote
FromOneCall ==
  \A k \in KeyIds :
     keys[k].present =>
       \E i \in Written : inflight[i].key = k /\ keys[k] = RecordOf(inflight[i])

\* the generate calls that have settled have identifiers of their own
DistinctIds ==
  \A i, j \in Written :
     (i # j /\ inflight[i].op \in Generators /\ inflight[j].op \in Generators)
       => inflight[i].key # inflight[j].key

\* what a sign or an encryptToken that has settled returned was made with
\* the record the call read when it was started
UsedRecordRead ==
  \A i \in DOMAIN inflight :
     LET call == inflight[i]
     IN (call.phase = "done" /\ call.out.t = "ok") =>
          /\ call.op = "sign" =>
               /\ call.out.v.signature.m = call.rec.privateKey.m
               /\ call.out.v.protected.alg = call.rec.alg
          /\ call.op = "encryptToken" =>
               /\ call.out.v.v.m = call.rec.publicKey.m
               /\ call.out.v.v.header.alg = call.rec.alg

\* a step that changes a record that is there is the settling of an import
\* under that identifier
OnlyImportsOverwrite ==
  \A k \in KeyIds :
     (keys[k].present /\ keys'[k] # keys[k]) =>
       \E i \in Awaiting(Importers) :
          inflight[i].key = k /\ inflight'[i].phase = "done"

\* C30: under any interleaving of generateKeyPair,
\* generateKeyPairForEncryption, importKeyPair and
\* importKeyPairForEncryption calls on one store, every record readable at
\* any moment has its public half, private half and algorithm from one
\* single call; generate calls that overlap get distinct ids and neither
\* record is lost; and a sign or encrypt call uses the record it read at
\* its start, also when the id is overwritten before it completes.
OverlappingCallsKeepRecordsWhole ==
  /\ [](FromOneCall /\ DistinctIds /\ UsedRecordRead)
  /\ [][OnlyImportsOverwrite]_vars

\* a sign that was started on a generated signing key pair settled after an
\* import had overwritten the record: the signature is the old key's
OverlappingCallsKeepRecordsWholeWitness ==
  \E i \in DOMAIN inflight :
     /\ inflight[i].op = "sign"
     /\ inflight[i].phase = "done"
     /\ inflight[i].out.t = "ok"
     /\ keys[inflight[i].key] # inflight[i].rec
     /\ keys[inflight[i].key].privateKey.m = ImportedMaterial
     /\ inflight[i].out.v.signature.m # ImportedMaterial

====
